---- MODULE Spec2Model ----
(***************************************************************************)
(* A model of the song_editor analysis pipeline: chord-to-word association *)
(* (ui/main_window.py), chord and note segment merging                     *)
(* (core/chord_detector.py, core/melody_extractor.py), JSON export/import  *)
(* (export/json_exporter.py, models/song_data.py,                          *)
(* models/song_data_importer.py) and source separation                     *)
(* (core/audio_processor.py).                                              *)
(*                                                                         *)
(* Each component is a specification of its own (SpecAssoc, SpecChord,     *)
(* ...) over the variables of that component; the variables of the other   *)
(* components stay at their initial value.                                 *)
(*                                                                         *)
(* Times are integers.  In the association model the unit is arbitrary     *)
(* (the code has no time constant there).  In the merge models the unit is *)
(* one centisecond, so the 0.1 s tolerance is 10 and 0.5 s is 50.          *)
(***************************************************************************)
EXTENDS Integers, Sequences, FiniteSets, TLC

VARIABLES
    \* ---- chord-to-word association (ProcessingThread) ----
    words,        \* list of Word: [start, end, chord]
    chords,       \* list of Chord: [symbol, start, end]
    assocPhase,   \* "fresh", "once", "twice": how often association has run
    firstRun,     \* the word list as the first run left it
    \* ---- chord detection (ChordDetector.detect) ----
    detEngine,    \* "chordino" or "chromagram" (use_chordino), "off" outside SpecChord
    rawChords,    \* what the engine reports, before the confidence filter
    detPhase,     \* "idle", "first", "second": detect() calls made on rawChords
    minConf,      \* min_confidence of the detector of the latest call
    detected,     \* the list the latest detect() returned
    detectedFirst, \* the list the first detect() returned
    \* ---- direct calls of _merge_similar_chords / _merge_similar_notes ----
    mergeKind,    \* "chords" or "notes", "off" outside SpecMerge
    mergeIn,      \* the list passed in
    mergeMinDur,  \* min_duration of the chord merge (0 for notes: no such filter)
    mergeOut,     \* the list returned
    mergePhase,   \* "idle", "done"
    \* ---- melody extraction (MelodyExtractor.extract) ----
    melEngine,    \* "basic_pitch" or "crepe" (use_basic_pitch), "off" outside SpecMelody
    noteEvents,   \* basic_pitch: the note_events predict() returned
    frames,       \* crepe: the per-frame rounded pitch and confidence
    minNoteDur,   \* min_note_duration of the extractor
    notes,        \* the list extract() returned
    melPhase,     \* "idle", "done"
    \* ---- source separation (AudioProcessor.separate_sources) ----
    useDemucs,    \* self.use_demucs
    separator,    \* self.separator: "htdemucs" or NONE
    sepInput,     \* the audio buffer of the call in progress
    sepPc,        \* where the call stands: "idle", "begun", "saved", "separated",
                  \* "removed", "returned"; "off" outside SpecSep
    tempPath,     \* temp_path of the call in progress, 0 when it has none
    tempFiles,    \* the temp files that exist on disk
    sepResult,    \* what the call returned (or raised)
    sepFailed,    \* a step of the engine path raised in this call
    sepCalls,     \* calls of separate_sources begun so far
    \* ---- JSON export and re-import ----
    songData,     \* the caller's song_data dict handed to JSONExporter.export
    assembled,    \* songData as it was assembled, before any export
    exportFile,   \* the JSON file at output_path
    exportOk,     \* return values of the export calls so far
    imported,     \* what re-importing the file gave
    expPhase,     \* "assembled", "exported", "imported"; "off" outside SpecExport
    \* ---- transcription (Transcriber) ----
    trAvail,      \* the *_AVAILABLE flags of the module, by backend name
    trRequested,  \* the model argument of Transcriber(...)
    trLoadOk,     \* whether loading a model succeeds in this environment
    trModel,      \* self.model
    trThreshold,  \* self.confidence_threshold
    trCandidates, \* models_to_try of the call in progress
    trIndex,      \* position of the loop over models_to_try
    trAttempts,   \* the backends tried in this call and how each ended
    trTemp,       \* temp_path of the attempt in progress, 0 when it has none
    trTempFiles,  \* the temp files that exist on disk
    trTempCount,  \* temp files created so far
    trResult,     \* what transcribe returned or raised
    trPc,         \* "new", "failed", "idle", "trying", "saved", "done"; "off" outside
    \* ---- single-file pipeline run ----
    runRunner,    \* "gui" (ProcessingThread.run) or "cli" (process_audio_file)
    runPc,        \* the statement the run is at; "ended" when it is over
    runElapsed,   \* time.time() - self.start_time, in seconds
    runStarted,   \* the stages started so far, in order
    runChecks,    \* the elapsed-time checks made so far: where, and the elapsed time seen
    runOutcome,   \* "none", "document", "timeout", "error"
    runAudioData, \* audio_data, the dict audio_processor.process returned
    runInputs,    \* the buffer each started stage was given, in the order of runStarted
    runCompleted, \* the stages that have returned, in order
    runSignals,   \* the terminal signals emitted: processing_finished, error_occurred
    \* ---- batch processing ----
    batchPc,          \* "new", "sequential", "parallel", "done"
    batchParallel,    \* max_workers /= 1
    batchForce,       \* force_overwrite in kwargs: "absent", "false", "true"
    batchFiles,       \* audio_files, in the order get_audio_files returns them
    batchStems,       \* file -> the stem of its name, which names its artifact
    existedBefore,    \* the stems whose <stem>.song_data.json existed before the batch
    artifacts,        \* stem -> "absent", "old" (as before the batch) or "new" (written)
    sawArtifact,      \* file -> what song_data_file.exists() returned: "unchecked", "yes", "no"
    artifactWrites,   \* the writes of <stem>.song_data.json so far: the stem and the file
    batchRunning,     \* parallel mode: the files whose worker is inside the pipeline
    pipelineCalls,    \* the files process_audio_file was called with, in order
    batchIndex,       \* sequential mode: the position of the loop
    batchPending,     \* parallel mode: submitted tasks that have not run yet
    batchDone,        \* parallel mode: results of finished tasks not yet taken by the loop
    batchResults,     \* results
    successfulFiles,  \* self.successful_files
    failedFiles,      \* self.failed_files
    batchSummary,     \* <<>> or <<the summary process_batch returned>>
    \* ---- loudness normalisation ----
    normCalls,        \* the normalize_audio calls made so far: input, path, returned, info
    \* ---- chunked analysis by the remote model ----
    gemPc,            \* "new", "outer", "post", "advance", "done"
    gemKey,           \* self.api_key is set
    gemLen,           \* len(y), in samples
    gemPerChunk,      \* samples_per_chunk
    gemStart,         \* start
    gemEnd,           \* end
    gemHits,          \* unavailable_hits
    gemSkipped,       \* skipped_this_chunk
    gemStarts,        \* the values of start at the outer iterations so far
    gemHitsAtChunk,   \* unavailable_hits when the current chunk began
    gemPosts,         \* how often the current chunk has been posted
    gemSleeps         \* the backoff delays slept so far

assocVars == <<words, chords, assocPhase, firstRun>>
chordVars == <<detEngine, rawChords, detPhase, minConf, detected, detectedFirst>>

mergeVars == <<mergeKind, mergeIn, mergeMinDur, mergeOut, mergePhase>>

melodyVars == <<melEngine, noteEvents, frames, minNoteDur, notes, melPhase>>

sepVars == <<useDemucs, separator, sepInput, sepPc, tempPath, tempFiles, sepResult,
            sepFailed, sepCalls>>

exportVars == <<songData, assembled, exportFile, exportOk, imported, expPhase>>

trVars == <<trAvail, trRequested, trLoadOk, trModel, trThreshold, trCandidates, trIndex,
           trAttempts, trTemp, trTempFiles, trTempCount, trResult, trPc>>

runVars == <<runRunner, runPc, runElapsed, runStarted, runChecks, runOutcome, runAudioData,
             runInputs, runCompleted, runSignals>>

batchVars == <<batchPc, batchParallel, batchForce, batchFiles, batchStems, existedBefore,
               artifacts, sawArtifact, artifactWrites, batchRunning, pipelineCalls, batchIndex, batchPending, batchDone, batchResults,
               successfulFiles, failedFiles, batchSummary>>

normVars == <<normCalls>>

geminiVars == <<gemPc, gemKey, gemLen, gemPerChunk, gemStart, gemEnd, gemHits, gemSkipped,
                gemStarts, gemHitsAtChunk, gemPosts, gemSleeps>>

vars == <<assocVars, chordVars, mergeVars, melodyVars, sepVars, exportVars, trVars, runVars, batchVars,
         normVars, geminiVars>>

\* The association variables while another component is looked at.
AssocIdle == words = <<>> /\ chords = <<>> /\ assocPhase = "off" /\ firstRun = <<>>

\* The chord detection variables while another component is looked at.
ChordIdle ==
    /\ detEngine = "off" /\ rawChords = <<>> /\ detPhase = "off"
    /\ minConf = 0 /\ detected = <<>> /\ detectedFirst = <<>>

\* The merge variables while another component is looked at.
MergeIdle ==
    /\ mergeKind = "off" /\ mergeIn = <<>> /\ mergeMinDur = 0
    /\ mergeOut = <<>> /\ mergePhase = "off"

\* The melody variables while another component is looked at.
MelodyIdle ==
    /\ melEngine = "off" /\ noteEvents = <<>> /\ frames = <<>> /\ minNoteDur = 0
    /\ notes = <<>> /\ melPhase = "off"

\* The separation variables while another component is looked at.
SepIdle ==
    /\ useDemucs = FALSE /\ separator = "none" /\ sepInput = "none" /\ sepPc = "off"
    /\ tempPath = 0 /\ tempFiles = {} /\ sepResult = "none" /\ sepFailed = FALSE
    /\ sepCalls = 0

\* The export variables while another component is looked at.
ExportIdle ==
    /\ songData = "none" /\ assembled = "none" /\ exportFile = "none"
    /\ exportOk = <<>> /\ imported = "none" /\ expPhase = "off"

\* The transcription variables while another component is looked at.
TrIdle ==
    /\ trAvail = "none" /\ trRequested = "none" /\ trLoadOk = FALSE /\ trModel = "none"
    /\ trThreshold = 0 /\ trCandidates = <<>> /\ trIndex = 0 /\ trAttempts = <<>>
    /\ trTemp = 0 /\ trTempFiles = {} /\ trTempCount = 0 /\ trResult = "none"
    /\ trPc = "off"

\* The pipeline-run variables while another component is looked at.
RunIdle ==
    /\ runRunner = "none" /\ runPc = "off" /\ runElapsed = 0 /\ runStarted = <<>>
    /\ runChecks = <<>> /\ runOutcome = "none"
    /\ runAudioData = [audio |-> "none", vocals |-> "none", accompaniment |-> "none"]
    /\ runInputs = <<>>
    /\ runCompleted = <<>>
    /\ runSignals = <<>>

\* The batch variables while another component is looked at.
BatchIdle ==
    /\ batchPc = "off" /\ batchParallel = FALSE /\ batchForce = "absent"
    /\ batchFiles = <<>> /\ existedBefore = {} /\ artifacts = <<>> /\ pipelineCalls = <<>>
    /\ batchStems = <<>> /\ sawArtifact = <<>> /\ artifactWrites = <<>> /\ batchRunning = {}
    /\ batchIndex = 0 /\ batchPending = {} /\ batchDone = {} /\ batchResults = <<>>
    /\ successfulFiles = <<>> /\ failedFiles = <<>> /\ batchSummary = <<>>

\* The normalisation variables while another component is looked at.
NormIdle ==
    /\ normCalls = <<>>

\* The remote-analysis variables while another component is looked at.
GeminiIdle ==
    /\ gemPc = "off" /\ gemKey = FALSE /\ gemLen = 0 /\ gemPerChunk = 1 /\ gemStart = 0
    /\ gemEnd = 0 /\ gemHits = 0 /\ gemSkipped = FALSE /\ gemStarts = <<>>
    /\ gemHitsAtChunk = 0 /\ gemPosts = 0 /\ gemSleeps = <<>>

\* Python's None (an unset optional field).
NONE == "none"

Min(a, b) == IF a <= b THEN a ELSE b
Max(a, b) == IF a >= b THEN a ELSE b


(***************************************************************************)
(* Chord-to-word association                                               *)
(***************************************************************************)

\* Bounds of the association model.
MaxWords == 1
MaxChords == 2
\* The time grid words and chords are drawn from, and the chord symbols.
AssocTimes == 0 .. 3
Symbols == {"C", "G"}

Intervals(T) == {iv \in T \X T : iv[1] <= iv[2]}

\* A word as the transcriber hands it over: no chord yet (Word.from_dict of a
\* transcriber dict, which has no 'chord' key).
FreshWords == {[start |-> iv[1], end |-> iv[2], chord |-> NONE] : iv \in Intervals(AssocTimes)}
ChordSegs == {[symbol |-> s, start |-> iv[1], end |-> iv[2]] : s \in Symbols, iv \in Intervals(AssocTimes)}

\* chord_start <= word_mid_time <= chord_end, with word_mid_time =
\* (word.start + word.end) / 2.0; both sides are doubled to stay in integers.
ContainsMid(w, c) == 2 * c.start <= w.start + w.end /\ w.start + w.end <= 2 * c.end

\* overlap = min(word.end, chord_end) - max(word.start, chord_start)
Overlap(w, c) == Min(w.end, c.end) - Max(w.start, c.start)

\* best_chord = None, best_overlap = 0.0 before the inner loop.
NoBest == [found |-> FALSE, symbol |-> NONE, start |-> 0, overlap |-> 0]

\* The inner loop over the chords: a chord replaces the best one only when it
\* contains the midpoint and its overlap is strictly larger than best_overlap.
RECURSIVE BestChord(_, _, _)
BestChord(w, cs, best) ==
    IF cs = <<>> THEN best
    ELSE LET c == Head(cs)
             nb == IF ContainsMid(w, c) /\ Overlap(w, c) > best.overlap
                   THEN [found |-> TRUE, symbol |-> c.symbol, start |-> c.start,
                         overlap |-> Overlap(w, c)]
                   ELSE best
         IN BestChord(w, Tail(cs), nb)

\* A variant that also moves the word's start to the chosen chord's start.
AssociateWordSnap(w, cs) ==
    LET best == BestChord(w, cs, NoBest)
    IN IF best.found THEN [w EXCEPT !.chord = best.symbol, !.start = best.start] ELSE w

\* One iteration of the loop over the words: the word gets the best chord's symbol,
\* and is left alone when there is none.
AssociateWord(w, cs) ==
    LET best == BestChord(w, cs, NoBest)
    IN IF best.found THEN [w EXCEPT !.chord = best.symbol] ELSE w

\* _associate_chords_with_words(words, chords): returns at once on an empty chord
\* list, else updates every word in place.
AssociateChordsWithWords(ws, cs) ==
    IF cs = <<>> THEN ws
    ELSE [i \in 1 .. Len(ws) |-> AssociateWord(ws[i], cs)]

InitAssoc ==
    /\ \E k \in 0 .. MaxWords : words \in [1 .. k -> FreshWords]
    /\ \E k \in 0 .. MaxChords : chords \in [1 .. k -> ChordSegs]
    /\ assocPhase = "fresh"
    /\ firstRun = <<>>
    /\ ChordIdle /\ MergeIdle /\ MelodyIdle /\ SepIdle /\ ExportIdle /\ TrIdle /\ RunIdle /\ BatchIdle /\ NormIdle /\ GeminiIdle

\* The first call of _associate_chords_with_words on the assembled lists.
AssociateFirst ==
    /\ assocPhase = "fresh"
    /\ words' = AssociateChordsWithWords(words, chords)
    /\ firstRun' = words'
    /\ assocPhase' = "once"
    /\ UNCHANGED <<chords, chordVars, mergeVars, melodyVars, sepVars, exportVars, trVars, runVars, batchVars, normVars, geminiVars>>

\* A second call with the same chord list.
AssociateAgain ==
    /\ assocPhase = "once"
    /\ words' = AssociateChordsWithWords(words, chords)
    /\ assocPhase' = "twice"
    /\ UNCHANGED <<chords, firstRun, chordVars, mergeVars, melodyVars, sepVars, exportVars, trVars, runVars, batchVars, normVars, geminiVars>>

NextAssoc == AssociateFirst \/ AssociateAgain

SpecAssoc == InitAssoc /\ [][NextAssoc]_vars

\* The first chord in list order whose closed interval contains the word's midpoint
\* (NONE when there is none): the lookup the specification describes.
RECURSIVE FirstContaining(_, _)
FirstContaining(w, cs) ==
    IF cs = <<>> THEN NONE
    ELSE IF ContainsMid(w, Head(cs)) THEN Head(cs).symbol
    ELSE FirstContaining(w, Tail(cs))

\* C1: running the association a second time with the chord list unchanged leaves
\* every word's chord equal to what the first run produced.
C1_AssociationIdempotent ==
    assocPhase = "twice" =>
        /\ Len(words) = Len(firstRun)
        /\ \A i \in 1 .. Len(words) : words[i].chord = firstRun[i].chord

\* A second run has happened on a word that the first run gave a chord.
C1_Witness ==
    /\ assocPhase = "twice"
    /\ \E i \in 1 .. Len(firstRun) : firstRun[i].chord /= NONE

\* C2: after association every word carries the symbol of the first chord in list
\* order whose closed interval contains the word's midpoint, and no chord when no
\* chord contains it (zero-duration words and shared boundaries included).
C2_FirstContainingChord ==
    assocPhase = "once" =>
        \A i \in 1 .. Len(words) : words[i].chord = FirstContaining(words[i], chords)

\* The chord list is in time order and no two chords overlap (they may touch).
TimeOrdered(cs) == \A i, j \in 1 .. Len(cs) : i < j => cs[i].end <= cs[j].start

\* BlockView.create_blocks_from_data, the loop over a block's words: the word gets the
\* first chord with chord.start <= word_mid <= chord.end and keeps its chord when there
\* is none.
BlockViewChord(w, cs) ==
    LET c == FirstContaining(w, cs)
    IN IF c = NONE THEN w.chord ELSE c

\* CCLIExporter._find_chord_for_word: the symbol of the first chord with
\* chord_start <= word_end and chord_end >= word_start, None when there is none.
RECURSIVE FindChordForWord(_, _)
FindChordForWord(w, cs) ==
    IF cs = <<>> THEN NONE
    ELSE IF Head(cs).start <= w.end /\ Head(cs).end >= w.start THEN Head(cs).symbol
    ELSE FindChordForWord(w, Tail(cs))

\* C29: for every word and every time-ordered, non-overlapping chord list the chord the
\* processing thread assigns, the chord the block view finds and the chord the CCLI
\* exporter finds are the same.
C29_LookupsAgree ==
    (assocPhase = "once" /\ TimeOrdered(chords)) =>
        \A i \in 1 .. Len(words) :
            LET fresh == [words[i] EXCEPT !.chord = NONE]
            IN /\ words[i].chord = BlockViewChord(fresh, chords)
               /\ words[i].chord = FindChordForWord(fresh, chords)

(***************************************************************************)
(* Chord detection: ChordDetector.detect                                   *)
(***************************************************************************)

\* Bound: the number of segments (Chordino) or frames (chromagram) of one input.
MaxSegs == 3

\* The time unit of the detection and merge models: one sample at the audio
\* processor's target rate, so a second is 44100 ticks.
TicksPerSecond == 44100
CentiSec(n) == n * (TicksPerSecond \div 100)

\* Confidences are kept as integers: 1.0 is 800, so that a percentage stays an integer
\* through three halvings (the running average of a merged run).
ConfOne == 100 * 8
Conf(pct) == pct * (ConfOne \div 100)

\* The values the inputs are drawn from: segment boundaries (centiseconds),
\* confidences, thresholds (0.3 is the detector's default) and sample rates.
ChordTimes == {CentiSec(n) : n \in {0, 24, 25, 50, 52, 60, 90, 100}}
ChordSymbols == {"C", "Am"}
Confidences == {Conf(60), Conf(80)}
Thresholds == {Conf(30), Conf(70)}
SampleRates == {44100, 11025}

Abs(x) == IF x < 0 THEN 0 - x ELSE x

\* abs(next['start'] - current['end']) < 0.1
GapTolerance == TicksPerSecond \div 10
\* min_duration: float = 0.5, the default detect() calls the merge with
DefaultMinDuration == TicksPerSecond \div 2
\* window_size: float = 0.5
WindowSize == TicksPerSecond \div 2

RawSeg(sym, st, en, cf) == [symbol |-> sym, start |-> st, end |-> en, confidence |-> cf]

\* Time-ordered, non-overlapping lists: what a chord recogniser that labels every
\* instant with one chord reports.
RECURSIVE OrderedFrom(_, _)
OrderedFrom(t, n) ==
    IF n = 0 THEN {<<>>}
    ELSE {<<>>} \cup
         UNION {{<<RawSeg(sym, iv[1], iv[2], cf)>> \o rest : rest \in OrderedFrom(iv[2], n - 1)} :
                sym \in ChordSymbols, cf \in Confidences,
                iv \in {x \in ChordTimes \X ChordTimes : t <= x[1] /\ x[1] < x[2]}}

\* The lists of at most n segments the recogniser can report.
ChordinoOutputs(n) == OrderedFrom(0, n)

\* hop_length = int(self.window_size * sample_rate), in samples
HopLength(sr) == sr \div 2

\* librosa.frames_to_time(i, sr, hop_length) = i * hop_length / sr seconds
FrameTime(i, sr) == (i * HopLength(sr) * TicksPerSecond) \div sr

\* The chromagram path before its confidence test: frame i (0-based) with its best
\* template and confidence becomes the candidate [frame_time, frame_time + window_size].
ChromagramOutputs ==
    UNION {{[i \in 1 .. k |-> RawSeg(f[i][1], FrameTime(i - 1, sr),
                                     FrameTime(i - 1, sr) + WindowSize, f[i][2])] :
            f \in [1 .. k -> ChordSymbols \X Confidences]} :
           k \in 0 .. MaxSegs, sr \in SampleRates}

\* if confidence >= self.min_confidence
PassesConfidence(seg, mc) == seg.confidence >= mc

\* The processed_chord / chord dict appended for a candidate that passes.
ProcessedChord(seg) ==
    [symbol |-> seg.symbol, start |-> seg.start, end |-> seg.end,
     duration |-> seg.end - seg.start, confidence |-> seg.confidence]

RECURSIVE FilterByConfidence(_, _)
FilterByConfidence(raw, mc) ==
    IF raw = <<>> THEN <<>>
    ELSE (IF PassesConfidence(Head(raw), mc) THEN <<ProcessedChord(Head(raw))>> ELSE <<>>)
         \o FilterByConfidence(Tail(raw), mc)

\* current_chord['symbol'] == next_chord['symbol'] and
\* abs(next_chord['start'] - current_chord['end']) < 0.1
ChordsSimilar(cur, next) ==
    cur.symbol = next.symbol /\ Abs(next.start - cur.end) < GapTolerance

\* The merge branch: end, duration and the averaged confidence of current_chord.
MergeInto(cur, next) ==
    [cur EXCEPT !.end = next.end,
                !.duration = next.end - cur.start,
                !.confidence = (cur.confidence + next.confidence) \div 2]

\* if current_chord['duration'] >= min_duration
KeepChord(c, minDur) == c.duration >= minDur

\* The loop of _merge_similar_chords over chords[1:].
RECURSIVE MergeChordsLoop(_, _, _, _)
MergeChordsLoop(rest, cur, merged, minDur) ==
    IF rest = <<>>
    THEN IF KeepChord(cur, minDur) THEN Append(merged, cur) ELSE merged
    ELSE IF ChordsSimilar(cur, Head(rest))
         THEN MergeChordsLoop(Tail(rest), MergeInto(cur, Head(rest)), merged, minDur)
         ELSE MergeChordsLoop(Tail(rest), Head(rest),
                              IF KeepChord(cur, minDur) THEN Append(merged, cur) ELSE merged,
                              minDur)

\* _merge_similar_chords(chords, min_duration)
MergeSimilarChords(cs, minDur) ==
    IF cs = <<>> THEN cs ELSE MergeChordsLoop(Tail(cs), Head(cs), <<>>, minDur)

\* detect(): the engine path with its confidence filter, then the merge with the
\* default min_duration.  (_simplify_chords maps every symbol to itself and is left
\* out.)
DetectChords(raw, mc) == MergeSimilarChords(FilterByConfidence(raw, mc), DefaultMinDuration)

InitChord ==
    /\ detEngine \in {"chordino", "chromagram"}
    /\ rawChords \in (IF detEngine = "chordino" THEN ChordinoOutputs(MaxSegs) ELSE ChromagramOutputs)
    /\ detPhase = "idle"
    /\ minConf = 0
    /\ detected = <<>>
    /\ detectedFirst = <<>>
    /\ AssocIdle /\ MergeIdle /\ MelodyIdle /\ SepIdle /\ ExportIdle /\ TrIdle /\ RunIdle /\ BatchIdle /\ NormIdle /\ GeminiIdle

\* detect() on a detector built with some min_confidence.
DetectFirst ==
    /\ detPhase = "idle"
    /\ \E mc \in Thresholds :
        /\ minConf' = mc
        /\ detected' = DetectChords(rawChords, mc)
    /\ detectedFirst' = detected'
    /\ detPhase' = "first"
    /\ UNCHANGED <<detEngine, rawChords, assocVars, mergeVars, melodyVars, sepVars, exportVars, trVars, runVars, batchVars, normVars, geminiVars>>

\* detect() on the same engine output with the threshold raised (or kept).
DetectRaised ==
    /\ detPhase = "first"
    /\ \E mc \in Thresholds :
        /\ mc >= minConf
        /\ minConf' = mc
        /\ detected' = DetectChords(rawChords, mc)
    /\ detPhase' = "second"
    /\ UNCHANGED <<detEngine, rawChords, detectedFirst, assocVars, mergeVars, melodyVars, sepVars, exportVars, trVars, runVars, batchVars, normVars, geminiVars>>

NextChord == DetectFirst \/ DetectRaised

SpecChord == InitChord /\ [][NextChord]_vars

\* C3: the list detect() returns is time-ordered and non-overlapping.
C3_DetectedNonOverlapping ==
    detPhase \in {"first", "second"} =>
        \A i \in 1 .. Len(detected) - 1 : detected[i].end <= detected[i + 1].start

\* C5: raising min_confidence never increases the number of segments detect()
\* returns for the same engine output.
C5_ConfidenceMonotone ==
    detPhase = "second" => Len(detected) <= Len(detectedFirst)

(***************************************************************************)
(* The merge functions called on their own:                                *)
(* ChordDetector._merge_similar_chords, MelodyExtractor._merge_similar_notes*)
(***************************************************************************)

\* Bound: the length of a list passed to a merge function.
MaxMergeSegs == 2

\* The min_duration arguments tried: 0.25 s and the default 0.5 s.
MinDurations == {CentiSec(25), DefaultMinDuration}

\* def _merge_similar_notes(self, notes, max_gap: float = 0.1)
DefaultMaxGap == TicksPerSecond \div 10

Pitches == {60, 62}
NoteTimes == {CentiSec(n) : n \in {0, 50, 52, 60, 100}}

\* The times of the lists passed to the merge functions directly: the grids above and
\* one more point, so that a segment can end inside the one before it.
MergeChordTimes == ChordTimes \cup {CentiSec(55)}
MergeNoteTimes == NoteTimes \cup {CentiSec(55)}

\* Chord dicts as the engine paths build them (duration = end - start), in any order.
ChordDicts ==
    {[symbol |-> sym, start |-> iv[1], end |-> iv[2], duration |-> iv[2] - iv[1],
      confidence |-> cf] :
        sym \in ChordSymbols, cf \in Confidences,
        iv \in {x \in MergeChordTimes \X MergeChordTimes : x[1] < x[2]}}

\* velocity = int(confidence * 127), as the pitch-tracker path sets it
VelocityOf(cf) == (cf * 127) \div ConfOne

NoteDicts ==
    {[pitch_midi |-> pm, start |-> iv[1], end |-> iv[2], duration |-> iv[2] - iv[1],
      confidence |-> cf, velocity |-> VelocityOf(cf)] :
        pm \in Pitches, cf \in Confidences,
        iv \in {x \in MergeNoteTimes \X MergeNoteTimes : x[1] < x[2]}}

\* current_note['pitch_midi'] == next_note['pitch_midi'] and
\* abs(next_note['start'] - current_note['end']) < max_gap
NotesSimilar(cur, next, maxGap) ==
    cur.pitch_midi = next.pitch_midi /\ Abs(next.start - cur.end) < maxGap

\* The merge branch of _merge_similar_notes.
MergeNoteInto(cur, next) ==
    [cur EXCEPT !.end = next.end,
                !.duration = next.end - cur.start,
                !.confidence = (cur.confidence + next.confidence) \div 2,
                !.velocity = (cur.velocity + next.velocity) \div 2]

\* The loop of _merge_similar_notes over notes[1:]; every note is kept.
RECURSIVE MergeNotesLoop(_, _, _, _)
MergeNotesLoop(rest, cur, merged, maxGap) ==
    IF rest = <<>> THEN Append(merged, cur)
    ELSE IF NotesSimilar(cur, Head(rest), maxGap)
         THEN MergeNotesLoop(Tail(rest), MergeNoteInto(cur, Head(rest)), merged, maxGap)
         ELSE MergeNotesLoop(Tail(rest), Head(rest), Append(merged, cur), maxGap)

\* _merge_similar_notes(notes, max_gap)
MergeSimilarNotes(ns, maxGap) ==
    IF ns = <<>> THEN ns ELSE MergeNotesLoop(Tail(ns), Head(ns), <<>>, maxGap)

InitMerge ==
    /\ mergeKind \in {"chords", "notes"}
    /\ \E k \in 0 .. MaxMergeSegs :
        mergeIn \in [1 .. k -> IF mergeKind = "chords" THEN ChordDicts ELSE NoteDicts]
    /\ mergeMinDur \in (IF mergeKind = "chords" THEN MinDurations ELSE {0})
    /\ mergeOut = <<>>
    /\ mergePhase = "idle"
    /\ AssocIdle /\ ChordIdle /\ MelodyIdle /\ SepIdle /\ ExportIdle /\ TrIdle /\ RunIdle /\ BatchIdle /\ NormIdle /\ GeminiIdle

\* A call of _merge_similar_chords(chords, min_duration).
MergeChordsCall ==
    /\ mergePhase = "idle" /\ mergeKind = "chords"
    /\ mergeOut' = MergeSimilarChords(mergeIn, mergeMinDur)
    /\ mergePhase' = "done"
    /\ UNCHANGED <<mergeKind, mergeIn, mergeMinDur, assocVars, chordVars, melodyVars, sepVars, exportVars, trVars, runVars, batchVars, normVars, geminiVars>>

\* A call of _merge_similar_notes(notes) with the default max_gap.
MergeNotesCall ==
    /\ mergePhase = "idle" /\ mergeKind = "notes"
    /\ mergeOut' = MergeSimilarNotes(mergeIn, DefaultMaxGap)
    /\ mergePhase' = "done"
    /\ UNCHANGED <<mergeKind, mergeIn, mergeMinDur, assocVars, chordVars, melodyVars, sepVars, exportVars, trVars, runVars, batchVars, normVars, geminiVars>>

NextMerge == MergeChordsCall \/ MergeNotesCall

SpecMerge == InitMerge /\ [][NextMerge]_vars

\* The label two segments are compared by: the symbol of a chord, the pitch of a note.
LabelOf(seg) == IF mergeKind = "chords" THEN seg.symbol ELSE seg.pitch_midi

\* The segments that pass the duration filter of the call (notes have none).
Surviving(segs) == SelectSeq(segs, LAMBDA x : x.end - x.start >= mergeMinDur)

\* first and second merged into one segment, as the specification's merge rule has it.
MergedPair(a, b) ==
    [a EXCEPT !.end = b.end, !.duration = b.end - a.start,
              !.confidence = (a.confidence + b.confidence) \div 2]

\* The fields the merge rule speaks of.
Core(seg) == [label |-> LabelOf(seg), start |-> seg.start, end |-> seg.end,
              confidence |-> seg.confidence]
CoreSeq(segs) == [i \in 1 .. Len(segs) |-> Core(segs[i])]

\* C6: two adjacent segments with the same symbol or pitch become one segment from
\* first.start to second.end with the average confidence whenever the gap
\* second.start - first.end is at most the tolerance, a gap equal to the tolerance
\* included; segments with different labels or a larger gap stay apart.
C6_MergeRule ==
    (mergePhase = "done" /\ Len(mergeIn) = 2 /\ mergeIn[2].start >= mergeIn[1].end) =>
        LET a == mergeIn[1]
            b == mergeIn[2]
        IN IF LabelOf(a) = LabelOf(b) /\ b.start - a.end <= GapTolerance
           THEN CoreSeq(mergeOut) = CoreSeq(Surviving(<<MergedPair(a, b)>>))
           ELSE CoreSeq(mergeOut) = CoreSeq(Surviving(mergeIn))

\* A run: one symbol throughout, every segment starting after the previous one ends
\* and at most the tolerance later.
IsRun(segs) ==
    /\ Len(segs) >= 2
    /\ \A i \in 1 .. Len(segs) - 1 :
        /\ segs[i].symbol = segs[i + 1].symbol
        /\ segs[i + 1].start >= segs[i].end
        /\ segs[i + 1].start - segs[i].end <= GapTolerance

\* C7: the minimum-duration filter of the chord merge looks at the merged span: a run
\* comes out as one segment from first.start to last.end when last.end - first.start
\* >= min_duration, and is dropped otherwise, whatever the length of each raw segment.
C7_FilterAfterMerge ==
    (mergePhase = "done" /\ mergeKind = "chords" /\ IsRun(mergeIn)) =>
        LET first == mergeIn[1]
            last == mergeIn[Len(mergeIn)]
        IN IF last.end - first.start >= mergeMinDur
           THEN /\ Len(mergeOut) = 1
                /\ mergeOut[1].symbol = first.symbol
                /\ mergeOut[1].start = first.start
                /\ mergeOut[1].end = last.end
           ELSE mergeOut = <<>>

\* The list is in time order: no segment starts before the one in front of it.
SortedByStart(segs) == \A i \in 1 .. Len(segs) - 1 : segs[i].start <= segs[i + 1].start

\* seg lies within some returned segment of the same label.
Covered(seg, out) ==
    \E k \in 1 .. Len(out) :
        /\ LabelOf(out[k]) = LabelOf(seg)
        /\ out[k].start <= seg.start
        /\ seg.end <= out[k].end

\* C30: merging loses no coverage: with a merged segment running from the smallest
\* start to the largest end of its members, every segment of a time-ordered input that
\* passes the duration filter on its own lies within a returned segment of its label,
\* also when the next segment of the same label overlaps the current one or lies
\* inside it.
C30_MergeKeepsCoverage ==
    (mergePhase = "done" /\ SortedByStart(mergeIn)) =>
        \A i \in 1 .. Len(mergeIn) :
            mergeIn[i].end - mergeIn[i].start >= mergeMinDur => Covered(mergeIn[i], mergeOut)

(***************************************************************************)
(* Melody extraction: MelodyExtractor.extract                              *)
(***************************************************************************)

\* Bounds: the number of note events (basic_pitch) and of frames (crepe) of one input.
MaxEvents == 2
MaxFrames == 4

\* min_pitch: int = 21 and max_pitch: int = 108
MinPitch == 21
MaxPitch == 108

\* min_confidence: float = 0.5
MelodyMinConfidence == Conf(50)

\* The amplitude at which the confidence reaches 1.0: min(1.0, amplitude / 0.5)
AmplitudeCeiling == ConfOne \div 2

\* crepe.predict's step between frames, 10 ms
FrameStep == CentiSec(1)

\* The values the inputs are drawn from: pitches (110 is out of range), amplitudes
\* (0.2, 0.3, 0.6, in the unit of the confidences), frame confidences and the
\* configured min_note_duration (0.02 s, and the default 0.1 s).
EventPitches == {60, 62, 110}
Amplitudes == {Conf(20), Conf(30), Conf(60)}
FrameConfidences == {Conf(40), Conf(80)}
MinNoteDurations == {CentiSec(2), CentiSec(10)}

NoteEvents ==
    {[start |-> iv[1], end |-> iv[2], pitch |-> pm, amplitude |-> am] :
        pm \in EventPitches, am \in Amplitudes,
        iv \in {x \in NoteTimes \X NoteTimes : x[1] < x[2]}}

\* What a polyphonic note tracker reports: in any order, notes of different pitches may
\* sound together, two notes of one pitch do not.
EventsWellFormed(evs) ==
    \A i, j \in 1 .. Len(evs) :
        (i < j /\ evs[i].pitch = evs[j].pitch) =>
            (evs[i].end <= evs[j].start \/ evs[j].end <= evs[i].start)

FrameValues == {[pitch |-> pm, confidence |-> cf] : pm \in EventPitches, cf \in FrameConfidences}

\* if self.min_pitch <= pitch_midi <= self.max_pitch
InPitchRange(pm) == MinPitch <= pm /\ pm <= MaxPitch

\* confidence = min(1.0, amplitude / 0.5)
AmplitudeConfidence(am) == Min(ConfOne, (am * ConfOne) \div AmplitudeCeiling)

\* The note dict _extract_melody_basic_pitch builds for an event.
EventNote(ev) ==
    [pitch_midi |-> ev.pitch, start |-> ev.start, end |-> ev.end,
     duration |-> ev.end - ev.start,
     velocity |-> (ev.amplitude * 127) \div ConfOne,
     confidence |-> AmplitudeConfidence(ev.amplitude)]

\* The three nested filters on an event: pitch range, minimum duration, confidence.
EventPasses(ev, mnd) ==
    /\ InPitchRange(ev.pitch)
    /\ ev.end - ev.start >= mnd
    /\ AmplitudeConfidence(ev.amplitude) >= MelodyMinConfidence

\* _extract_melody_basic_pitch: the loop over note_events, in the engine's order.
RECURSIVE ExtractBasicPitch(_, _)
ExtractBasicPitch(evs, mnd) ==
    IF evs = <<>> THEN <<>>
    ELSE (IF EventPasses(Head(evs), mnd) THEN <<EventNote(Head(evs))>> ELSE <<>>)
         \o ExtractBasicPitch(Tail(evs), mnd)

\* A frame carries a note: midi_note > 0 (in range, and not zeroed by the confidence
\* mask) and conf >= self.min_confidence.
FrameValid(f) == InPitchRange(f.pitch) /\ f.confidence >= MelodyMinConfidence

\* A variant that appends the closed note whatever its length.
CloseNoteAnyLength(out, cur, t, mnd) ==
    Append(out, [pitch_midi |-> cur.pitch_midi, start |-> cur.start, end |-> t,
                 duration |-> t - cur.start,
                 velocity |-> (cur.confidence * 127) \div ConfOne,
                 confidence |-> cur.confidence])

\* current_note closed at time t: appended when long enough.
CloseNote(out, cur, t, mnd) ==
    IF t - cur.start >= mnd
    THEN Append(out, [pitch_midi |-> cur.pitch_midi, start |-> cur.start, end |-> t,
                      duration |-> t - cur.start,
                      velocity |-> (cur.confidence * 127) \div ConfOne,
                      confidence |-> cur.confidence])
    ELSE out

\* A new current_note at frame i.
OpenNote(fs, i) ==
    [open |-> TRUE, pitch_midi |-> fs[i].pitch, start |-> (i - 1) * FrameStep,
     confidence |-> fs[i].confidence]

\* current_note = None
NoNote == [open |-> FALSE, pitch_midi |-> 0, start |-> 0, confidence |-> 0]

\* The frame loop of _extract_melody_crepe from frame i on, and the flush of the note
\* still open after the last frame (end = time[-1]).
RECURSIVE CrepeLoop(_, _, _, _, _)
CrepeLoop(fs, i, cur, out, mnd) ==
    IF i > Len(fs)
    THEN IF cur.open THEN CloseNote(out, cur, (Len(fs) - 1) * FrameStep, mnd) ELSE out
    ELSE LET t == (i - 1) * FrameStep
         IN IF FrameValid(fs[i])
            THEN IF ~cur.open
                 THEN CrepeLoop(fs, i + 1, OpenNote(fs, i), out, mnd)
                 ELSE IF fs[i].pitch /= cur.pitch_midi
                      THEN CrepeLoop(fs, i + 1, OpenNote(fs, i), CloseNote(out, cur, t, mnd), mnd)
                      ELSE CrepeLoop(fs, i + 1, cur, out, mnd)
            ELSE IF cur.open
                 THEN CrepeLoop(fs, i + 1, NoNote, CloseNote(out, cur, t, mnd), mnd)
                 ELSE CrepeLoop(fs, i + 1, cur, out, mnd)

\* _extract_melody_crepe
ExtractCrepe(fs, mnd) == CrepeLoop(fs, 1, NoNote, <<>>, mnd)

\* _filter_notes_by_duration
FilterNotesByDuration(ns, mnd) == SelectSeq(ns, LAMBDA n : n.duration >= mnd)

\* Insertion of n behind every element whose start is <= n.start (a stable sort step).
RECURSIVE InsertByStart(_, _)
InsertByStart(sorted, n) ==
    IF sorted = <<>> THEN <<n>>
    ELSE IF Head(sorted).start <= n.start
         THEN <<Head(sorted)>> \o InsertByStart(Tail(sorted), n)
         ELSE <<n>> \o sorted

\* notes.sort(key=lambda x: x['start'])
RECURSIVE SortByStart(_)
SortByStart(ns) ==
    IF ns = <<>> THEN <<>>
    ELSE InsertByStart(SortByStart(SubSeq(ns, 1, Len(ns) - 1)), ns[Len(ns)])

\* extract() after the engine path: duration filter, merge, sort.
PostProcessNotes(ns, mnd) ==
    SortByStart(MergeSimilarNotes(FilterNotesByDuration(ns, mnd), DefaultMaxGap))

InitMelody ==
    /\ melEngine \in {"basic_pitch", "crepe"}
    /\ minNoteDur \in MinNoteDurations
    /\ IF melEngine = "basic_pitch"
       THEN /\ \E k \in 0 .. MaxEvents : noteEvents \in [1 .. k -> NoteEvents]
            /\ EventsWellFormed(noteEvents)
            /\ frames = <<>>
       ELSE /\ \E k \in 0 .. MaxFrames : frames \in [1 .. k -> FrameValues]
            /\ noteEvents = <<>>
    /\ notes = <<>>
    /\ melPhase = "idle"
    /\ AssocIdle /\ ChordIdle /\ MergeIdle /\ SepIdle /\ ExportIdle /\ TrIdle /\ RunIdle /\ BatchIdle /\ NormIdle /\ GeminiIdle

\* extract() with use_basic_pitch set.
ExtractWithBasicPitch ==
    /\ melPhase = "idle" /\ melEngine = "basic_pitch"
    /\ notes' = PostProcessNotes(ExtractBasicPitch(noteEvents, minNoteDur), minNoteDur)
    /\ melPhase' = "done"
    /\ UNCHANGED <<melEngine, noteEvents, frames, minNoteDur, assocVars, chordVars, mergeVars, sepVars, exportVars, trVars, runVars, batchVars, normVars, geminiVars>>

\* extract() on the pitch-tracker path.
ExtractWithCrepe ==
    /\ melPhase = "idle" /\ melEngine = "crepe"
    /\ notes' = PostProcessNotes(ExtractCrepe(frames, minNoteDur), minNoteDur)
    /\ melPhase' = "done"
    /\ UNCHANGED <<melEngine, noteEvents, frames, minNoteDur, assocVars, chordVars, mergeVars, sepVars, exportVars, trVars, runVars, batchVars, normVars, geminiVars>>

NextMelody == ExtractWithBasicPitch \/ ExtractWithCrepe

SpecMelody == InitMelody /\ [][NextMelody]_vars

\* C4: the list extract() returns is sorted by start time and no two notes overlap:
\* every note ends no later than the next one starts.
C4_NotesNonOverlapping ==
    melPhase = "done" =>
        \A i \in 1 .. Len(notes) - 1 :
            /\ notes[i].start <= notes[i + 1].start
            /\ notes[i].end <= notes[i + 1].start

\* Python's round(n / d) for n >= 0 and d > 0: to the nearest integer, a tie to the even
\* one.
RoundRatio(n, d) ==
    LET q == n \div d
        r == n % d
    IN IF 2 * r > d \/ (2 * r = d /\ q % 2 = 1) THEN q + 1 ELSE q

\* C25: every note of the note-tracking path has velocity = round(confidence * 127), an
\* integer from 1 to 127.
C25_VelocityFromConfidence ==
    (melPhase = "done" /\ melEngine = "basic_pitch") =>
        LET out == ExtractBasicPitch(noteEvents, minNoteDur) IN
        \A k \in 1 .. Len(out) :
            /\ out[k].velocity = RoundRatio(out[k].confidence * 127, ConfOne)
            /\ 1 <= out[k].velocity /\ out[k].velocity <= 127

\* Frames a .. b are valid and carry one pitch.
SamePitchRun(fs, a, b) ==
    \A k \in a .. b : FrameValid(fs[k]) /\ fs[k].pitch = fs[a].pitch

\* Frames a .. b are a run that can be extended on neither side.
MaximalRun(fs, a, b) ==
    /\ a <= b
    /\ SamePitchRun(fs, a, b)
    /\ a = 1 \/ ~FrameValid(fs[a - 1]) \/ fs[a - 1].pitch /= fs[a].pitch
    /\ b = Len(fs) \/ ~FrameValid(fs[b + 1]) \/ fs[b + 1].pitch /= fs[b].pitch

\* The note of the run of frames a .. b: it ends at the time of the frame after the
\* run, or at the last frame's time when the run reaches the end.
RunNote(fs, a, b) ==
    [pitch_midi |-> fs[a].pitch,
     start |-> (a - 1) * FrameStep,
     end |-> IF b < Len(fs) THEN b * FrameStep ELSE (Len(fs) - 1) * FrameStep]

\* The notes of the maximal runs that are long enough.
LongRunNotes(fs, mnd) ==
    {n \in {RunNote(fs, r[1], r[2]) :
               r \in {x \in (1 .. Len(fs)) \X (1 .. Len(fs)) : MaximalRun(fs, x[1], x[2])}} :
        n.end - n.start >= mnd}

\* C24: the notes the pitch-tracker loop emits are exactly the maximal runs of valid
\* frames of one pitch that last at least min_note_duration, each from the time of its
\* first frame to the time of the frame that ends it (the last frame's time for a run
\* still open at the end), in time order and without overlap.
C24_NotesAreMaximalRuns ==
    (melPhase = "done" /\ melEngine = "crepe") =>
        LET out == ExtractCrepe(frames, minNoteDur) IN
        /\ {[pitch_midi |-> out[k].pitch_midi, start |-> out[k].start, end |-> out[k].end] :
               k \in 1 .. Len(out)} = LongRunNotes(frames, minNoteDur)
        /\ Len(out) = Cardinality(LongRunNotes(frames, minNoteDur))
        /\ \A k \in 1 .. Len(out) : out[k].duration = out[k].end - out[k].start
        /\ \A k \in 1 .. Len(out) - 1 :
              /\ out[k].start < out[k + 1].start
              /\ out[k].end <= out[k + 1].start

\* The loop closed a note at a change of pitch, flushed the note open at the last frame,
\* and dropped a run that was too short.
C24_Witness ==
    /\ melPhase = "done" /\ melEngine = "crepe"
    /\ Len(frames) = MaxFrames
    /\ FrameValid(frames[Len(frames)])
    /\ Len(ExtractCrepe(frames, minNoteDur)) = 1
    /\ \E a \in 1 .. Len(frames) :
          MaximalRun(frames, 1, a) /\ a * FrameStep < minNoteDur /\ FrameValid(frames[a + 1])

(***************************************************************************)
(* Source separation: AudioProcessor.separate_sources                      *)
(***************************************************************************)

\* Bound: the number of separate_sources calls on one AudioProcessor.
MaxSepCalls == 3

\* The audio buffers a call is made with, and the stems the engine hands back.
Buffers == {"mixA", "mixB"}
Stems == {"stemV", "stemA"}

\* {'vocals': audio, 'accompaniment': audio}
Passthrough(audio) == [kind |-> "returned", vocals |-> audio, accompaniment |-> audio]

\* A variant of the except branch that lets the exception out.
OnEngineFailureRaise(audio) == [kind |-> "raised", vocals |-> NONE, accompaniment |-> NONE]

\* except Exception as e: ... return {'vocals': audio, 'accompaniment': audio}
OnEngineFailure(audio) == Passthrough(audio)

\* AudioProcessor.__init__ and _initialize_demucs: use_demucs and DEMUCS_AVAILABLE, and
\* the separator only when Separator('htdemucs') did not raise.
InitSep ==
    /\ \E requested, available, initOk \in BOOLEAN :
        /\ useDemucs = (requested /\ available /\ initOk)
        /\ separator = IF requested /\ available /\ initOk THEN "htdemucs" ELSE NONE
    /\ sepInput = NONE
    /\ sepPc = "idle"
    /\ tempPath = 0
    /\ tempFiles = {}
    /\ sepResult = NONE
    /\ sepFailed = FALSE
    /\ sepCalls = 0
    /\ AssocIdle /\ ChordIdle /\ MergeIdle /\ MelodyIdle /\ ExportIdle /\ TrIdle /\ RunIdle /\ BatchIdle /\ NormIdle /\ GeminiIdle

sepOthers == <<assocVars, chordVars, mergeVars, melodyVars, exportVars, trVars, runVars, batchVars, normVars, geminiVars>>

\* separate_sources(audio, sr) is called.
SepCall ==
    /\ sepPc \in {"idle", "returned"}
    /\ sepCalls < MaxSepCalls
    /\ \E audio \in Buffers : sepInput' = audio
    /\ sepCalls' = sepCalls + 1
    /\ sepPc' = "begun"
    /\ tempPath' = 0
    /\ sepResult' = NONE
    /\ sepFailed' = FALSE
    /\ UNCHANGED <<useDemucs, separator, tempFiles, sepOthers>>

\* The else branch: separation disabled or no separator.
SepFallback ==
    /\ sepPc = "begun"
    /\ ~(useDemucs /\ separator /= NONE)
    /\ sepResult' = Passthrough(sepInput)
    /\ sepPc' = "returned"
    /\ UNCHANGED <<useDemucs, separator, sepInput, tempPath, tempFiles, sepFailed,
                   sepCalls, sepOthers>>

\* The step has raised: control is in the except branch of separate_sources.
SepExcept ==
    /\ sepResult' = OnEngineFailure(sepInput)
    /\ sepFailed' = TRUE
    /\ sepPc' = "returned"

\* _save_audio_temp: NamedTemporaryFile(delete=False) creates the file, sf.write fills
\* it or raises.
SepSaveTemp ==
    /\ sepPc = "begun"
    /\ useDemucs /\ separator /= NONE
    /\ tempFiles' = tempFiles \cup {sepCalls}
    /\ \/ /\ tempPath' = sepCalls
          /\ sepPc' = "saved"
          /\ UNCHANGED <<sepResult, sepFailed>>
       \/ /\ tempPath' = 0
          /\ SepExcept
    /\ UNCHANGED <<useDemucs, separator, sepInput, sepCalls, sepOthers>>

\* sources = self.separator.separate_file(temp_path)
SepSeparateFile ==
    /\ sepPc = "saved"
    /\ \/ /\ sepPc' = "separated"
          /\ UNCHANGED <<sepResult, sepFailed>>
       \/ SepExcept
    /\ UNCHANGED <<useDemucs, separator, sepInput, tempPath, tempFiles, sepCalls, sepOthers>>

\* os.remove(temp_path)
SepRemoveTemp ==
    /\ sepPc = "separated"
    /\ \/ /\ tempFiles' = tempFiles \ {tempPath}
          /\ sepPc' = "removed"
          /\ UNCHANGED <<sepResult, sepFailed>>
       \/ /\ UNCHANGED tempFiles
          /\ SepExcept
    /\ UNCHANGED <<useDemucs, separator, sepInput, tempPath, sepCalls, sepOthers>>

\* The conversion of the sources to arrays, and the return of the separated dict.
SepConvert ==
    /\ sepPc = "removed"
    /\ \/ /\ \E v, a \in Stems :
                sepResult' = [kind |-> "returned", vocals |-> v, accompaniment |-> a]
          /\ sepPc' = "returned"
          /\ UNCHANGED sepFailed
       \/ SepExcept
    /\ UNCHANGED <<useDemucs, separator, sepInput, tempPath, tempFiles, sepCalls, sepOthers>>

NextSep ==
    \/ SepCall
    \/ SepFallback
    \/ SepSaveTemp
    \/ SepSeparateFile
    \/ SepRemoveTemp
    \/ SepConvert

SpecSep == InitSep /\ [][NextSep]_vars

\* C9: when separation is disabled, the engine is unavailable or a step of the engine
\* path raised, separate_sources returns the input buffer as both vocals and
\* accompaniment, and raises nothing.
C9_PassthroughFallback ==
    (sepPc = "returned" /\ (~useDemucs \/ separator = NONE \/ sepFailed)) =>
        /\ sepResult.kind = "returned"
        /\ sepResult.vocals = sepInput
        /\ sepResult.accompaniment = sepInput

\* A call has returned after a step of the engine path raised.
C9_Witness == sepPc = "returned" /\ sepFailed /\ sepResult.kind = "returned"

\* C10: after separate_sources returns, no temp file it created still exists.
C10_TempFileRemoved ==
    sepPc = "returned" => sepCalls \notin tempFiles

(***************************************************************************)
(* JSON export and re-import: JSONExporter.export, SongData.from_dict,     *)
(* SongDataImporter.import_song_data.  Times are in hundredths of a second.*)
(***************************************************************************)

\* Bounds: words, chords and notes in a document, and exports of one document.
MaxDocWords == 2
MaxDocChords == 1
MaxDocNotes == 1
MaxExports == 2

\* word['end'] = start + 0.01
RepairIncrement == 1

\* JSONExporter(include_alternatives=True)
IncludeAlternatives == TRUE

\* An empty tuple stands for an alternatives list that is [], None or not there.
NoAlternatives == <<>>

DocTimes == {100, 101}
DocConfidence == Conf(90)

\* The keys validation asks of the metadata, and the ones export adds.
RequiredMetadata == {"version", "created_at", "source_audio"}
ExportMetadata == {"exported_at", "export_format", "export_version", "export_file",
                   "exporter_info"}

\* Metadata.to_dict: version and created_at always, source_audio when it is set.
DocMetadata == {RequiredMetadata, RequiredMetadata \ {"source_audio"}}

\* Transcriber._generate_alternatives: the alternative at 0.8 of the word's confidence.
Alternative == [text |-> "lah", confidence |-> (DocConfidence * 8) \div 10]

DocWords ==
    [text : {"la"}, start : DocTimes, end : DocTimes, confidence : {DocConfidence},
     alternatives : {NoAlternatives, <<Alternative>>}, chord : {NONE, "C"}]

DocChords ==
    [symbol : {"C"}, root : {"C"}, quality : {"maj"}, bass : {NONE, "G"},
     start : {100}, end : {150}, duration : {50}, confidence : {Conf(80)},
     detection_method : {"chordino", "chromagram"}]

DocNotes ==
    [pitch_midi : {60}, pitch_name : {"C4"}, start : {100}, end : {150},
     duration : {50}, velocity : {88, 101}, confidence : {Conf(80)},
     detection_method : {"crepe"}]

NoFile == [written |-> FALSE, metadata |-> {}, words |-> <<>>, chords |-> <<>>,
           notes |-> <<>>]

NotImported == [kind |-> NONE, words |-> <<>>, chords |-> <<>>, notes |-> <<>>]

\* A variant of the repair that takes any word no longer than the increment for a
\* zero-length one.
RepairWordCascading(w) ==
    IF w.end - w.start <= RepairIncrement THEN [w EXCEPT !.end = w.end + RepairIncrement]
    ELSE w

\* elif start == end: word['end'] = start + 0.01
RepairWord(w) ==
    IF w.start = w.end THEN [w EXCEPT !.end = w.start + RepairIncrement] ELSE w

\* The loop over the words in _validate_song_data: it stops with False at the first word
\* whose start is after its end, and has by then rewritten the words before it.
RECURSIVE ValidateWords(_, _)
ValidateWords(ws, i) ==
    IF i > Len(ws) THEN [ok |-> TRUE, words |-> ws]
    ELSE IF ws[i].start > ws[i].end THEN [ok |-> FALSE, words |-> ws]
    ELSE ValidateWords([ws EXCEPT ![i] = RepairWord(ws[i])], i + 1)

ValidateSongData(sd) ==
    IF ~(RequiredMetadata \subseteq sd.metadata)
    THEN [ok |-> FALSE, words |-> sd.words]
    ELSE ValidateWords(sd.words, 1)

CleanWordData(w) ==
    [text |-> w.text, start |-> w.start, end |-> w.end, confidence |-> w.confidence,
     alternatives |-> IF IncludeAlternatives THEN w.alternatives ELSE NoAlternatives,
     chord |-> w.chord]

CleanChordData(c) ==
    [symbol |-> c.symbol, root |-> c.root, quality |-> c.quality, start |-> c.start,
     end |-> c.end, bass |-> c.bass, duration |-> c.duration,
     confidence |-> c.confidence, detection_method |-> c.detection_method]

CleanNoteData(n) ==
    [pitch_midi |-> n.pitch_midi, start |-> n.start, end |-> n.end,
     pitch_name |-> n.pitch_name, duration |-> n.duration, velocity |-> n.velocity,
     confidence |-> n.confidence, detection_method |-> n.detection_method]

\* _prepare_export_data followed by _add_export_metadata.
PrepareExportData(sd) ==
    [written |-> TRUE,
     metadata |-> sd.metadata \cup ExportMetadata,
     words |-> [i \in 1 .. Len(sd.words) |-> CleanWordData(sd.words[i])],
     chords |-> [i \in 1 .. Len(sd.chords) |-> CleanChordData(sd.chords[i])],
     notes |-> [i \in 1 .. Len(sd.notes) |-> CleanNoteData(sd.notes[i])]]

WordFromDict(d) ==
    [text |-> d.text, start |-> d.start, end |-> d.end, confidence |-> d.confidence,
     alternatives |-> d.alternatives, chord |-> d.chord]

ChordFromDict(d) ==
    [symbol |-> d.symbol, root |-> d.root, quality |-> d.quality, start |-> d.start,
     end |-> d.end, bass |-> d.bass, duration |-> d.duration,
     confidence |-> d.confidence, detection_method |-> d.detection_method]

NoteFromDict(d) ==
    [pitch_midi |-> d.pitch_midi, start |-> d.start, end |-> d.end,
     pitch_name |-> d.pitch_name, duration |-> d.duration, velocity |-> d.velocity,
     confidence |-> d.confidence, detection_method |-> d.detection_method]

\* convert_to_word_rows: the alternatives collapse to the text of the best one, and the
\* chord is left unset.
WordRowOf(d) ==
    [text |-> d.text, start |-> d.start, end |-> d.end, confidence |-> d.confidence,
     chord |-> NONE,
     alt_text |-> IF d.alternatives /= NoAlternatives THEN d.alternatives[1].text ELSE NONE,
     alt_chord |-> NONE, alt_start |-> d.start, alt_end |-> d.end]

ParseChordData(d) ==
    [symbol |-> d.symbol, root |-> d.root, quality |-> d.quality, bass |-> d.bass,
     start |-> d.start, end |-> d.end, confidence |-> d.confidence]

ParseNoteData(d) ==
    [pitch_midi |-> d.pitch_midi, pitch_name |-> d.pitch_name, start |-> d.start,
     end |-> d.end, velocity |-> d.velocity, confidence |-> d.confidence]

\* SongDataImporter.validate_song_data on the parsed file.
ImporterAccepts(f) == RequiredMetadata \subseteq f.metadata

InitExport ==
    /\ \E md \in DocMetadata, kw \in 0 .. MaxDocWords, kc \in 0 .. MaxDocChords,
          kn \in 0 .. MaxDocNotes :
        \E ws \in [1 .. kw -> DocWords], cs \in [1 .. kc -> DocChords],
           ns \in [1 .. kn -> DocNotes] :
            songData = [metadata |-> md, words |-> ws, chords |-> cs, notes |-> ns]
    /\ assembled = songData
    /\ exportFile = NoFile
    /\ exportOk = <<>>
    /\ imported = NotImported
    /\ expPhase = "assembled"
    /\ AssocIdle /\ ChordIdle /\ MergeIdle /\ MelodyIdle /\ SepIdle /\ TrIdle /\ RunIdle /\ BatchIdle /\ NormIdle /\ GeminiIdle

exportOthers == <<assocVars, chordVars, mergeVars, melodyVars, sepVars, trVars, runVars, batchVars, normVars, geminiVars>>

\* JSONExporter.export(song_data, output_path): validation (which rewrites the caller's
\* words), preparation, and the write, which can fail.
Export ==
    /\ expPhase \in {"assembled", "exported"}
    /\ Len(exportOk) < MaxExports
    /\ LET v == ValidateSongData(songData)
           repaired == [songData EXCEPT !.words = v.words]
       IN  /\ songData' = repaired
           /\ \E writeOk \in BOOLEAN :
                IF v.ok /\ writeOk
                THEN /\ exportFile' = PrepareExportData(repaired)
                     /\ exportOk' = Append(exportOk, TRUE)
                ELSE /\ UNCHANGED exportFile
                     /\ exportOk' = Append(exportOk, FALSE)
    /\ expPhase' = "exported"
    /\ UNCHANGED <<assembled, imported, exportOthers>>

\* SongData.from_dict(json.load(f))
ImportFromDict ==
    /\ expPhase = "exported"
    /\ exportFile.written
    /\ imported' = [kind |-> "SongData",
                    words |-> [i \in 1 .. Len(exportFile.words) |-> WordFromDict(exportFile.words[i])],
                    chords |-> [i \in 1 .. Len(exportFile.chords) |-> ChordFromDict(exportFile.chords[i])],
                    notes |-> [i \in 1 .. Len(exportFile.notes) |-> NoteFromDict(exportFile.notes[i])]]
    /\ expPhase' = "imported"
    /\ UNCHANGED <<songData, assembled, exportFile, exportOk, exportOthers>>

\* SongDataImporter.import_song_data(path)
ImportSongData ==
    /\ expPhase = "exported"
    /\ exportFile.written
    /\ imported' = IF ImporterAccepts(exportFile)
                   THEN [kind |-> "WordRows",
                         words |-> [i \in 1 .. Len(exportFile.words) |-> WordRowOf(exportFile.words[i])],
                         chords |-> [i \in 1 .. Len(exportFile.chords) |-> ParseChordData(exportFile.chords[i])],
                         notes |-> [i \in 1 .. Len(exportFile.notes) |-> ParseNoteData(exportFile.notes[i])]]
                   ELSE [NotImported EXCEPT !.kind = "invalid"]
    /\ expPhase' = "imported"
    /\ UNCHANGED <<songData, assembled, exportFile, exportOk, exportOthers>>

NextExport ==
    \/ Export
    \/ ImportFromDict
    \/ ImportSongData

SpecExport == InitExport /\ [][NextExport]_vars

SameWord(a, b) ==
    /\ a.text = b.text /\ a.start = b.start /\ a.end = b.end
    /\ a.confidence = b.confidence /\ a.chord = b.chord

SameChord(a, b) ==
    /\ a.symbol = b.symbol /\ a.root = b.root /\ a.quality = b.quality
    /\ a.bass = b.bass /\ a.start = b.start /\ a.end = b.end

SameNote(a, b) ==
    /\ a.pitch_midi = b.pitch_midi /\ a.start = b.start /\ a.end = b.end
    /\ a.velocity = b.velocity

\* C8: once an exported document has been read back, by either importer, its words,
\* chords and notes are as many as in the assembled document and carry the same values
\* (text, start, end, confidence, alternatives, chord; symbol, root, quality, bass,
\* start, end; pitch_midi, start, end, velocity).
C8_RoundTrip ==
    imported.kind \in {"SongData", "WordRows"} =>
        /\ Len(imported.words) = Len(assembled.words)
        /\ \A i \in 1 .. Len(imported.words) : SameWord(assembled.words[i], imported.words[i])
        /\ imported.kind = "SongData" =>
              \A i \in 1 .. Len(imported.words) :
                  assembled.words[i].alternatives = imported.words[i].alternatives
        /\ Len(imported.chords) = Len(assembled.chords)
        /\ \A i \in 1 .. Len(imported.chords) : SameChord(assembled.chords[i], imported.chords[i])
        /\ Len(imported.notes) = Len(assembled.notes)
        /\ \A i \in 1 .. Len(imported.notes) : SameNote(assembled.notes[i], imported.notes[i])

\* Validation gets past every word of the assembled document.
ValidationPasses ==
    /\ RequiredMetadata \subseteq assembled.metadata
    /\ \A i \in 1 .. Len(assembled.words) : assembled.words[i].start <= assembled.words[i].end

\* C16: after one export or several, a word that was assembled with start = end has
\* end = start + 0.01 and no more than that, its start is as assembled, and a word with
\* start < end is as assembled.
C16_RepairOnce ==
    Len(exportOk) >= 1 =>
        /\ Len(songData.words) = Len(assembled.words)
        /\ \A i \in 1 .. Len(assembled.words) :
            LET was == assembled.words[i]
                now == songData.words[i]
            IN  /\ now.start = was.start
                /\ now.end \in {was.end, was.start + RepairIncrement}
                /\ was.start /= was.end => now.end = was.end
                /\ (was.start = was.end /\ ValidationPasses) =>
                      now.end = was.start + RepairIncrement

\* A document with a zero-length word has been exported twice and the word is repaired.
C16_Witness ==
    /\ Len(exportOk) = 2
    /\ \E i \in 1 .. Len(assembled.words) :
        /\ assembled.words[i].start = assembled.words[i].end
        /\ songData.words[i].end = assembled.words[i].start + RepairIncrement

\* C17: after export has returned, True or False, the caller's song_data is what it was
\* before the call.
C17_ExportReadOnly ==
    Len(exportOk) >= 1 => songData = assembled

(***************************************************************************)
(* Transcription: Transcriber._initialize_model and Transcriber.transcribe *)
(***************************************************************************)

\* Bounds: temp files created over the calls of transcribe on one Transcriber, and
\* words one engine run reports.
MaxTempFiles == 4
MaxEngineWords == 1

\* alternatives_count: int = 5
AlternativesCount == 5

Backends == {"openai-whisper", "faster-whisper", "whisperx", "mlx-whisper"}

\* confidence_threshold values (0.5 is the default) and the engines' word confidences.
\* The constructor takes any number: 1.5 is accepted as it is.
TrThresholds == {0, Conf(50), Conf(150)}
WordConfidences == {0, Conf(40), Conf(80)}
WordTexts == {"the", "sky"}

\* What an engine reports for a word.
EngineWords == [text : WordTexts, confidence : WordConfidences]

\* common_alternatives, for the words of WordTexts
CommonAlternatives(text) == IF text = "the" THEN <<"thee", "thuh">> ELSE <<>>

\* The branch of _initialize_model taken: the requested backend when its flag is set,
\* else faster-whisper when that one's flag is set, else none (ValueError).
InitializedModel(requested, avail) ==
    IF avail[requested] THEN requested
    ELSE IF avail["faster-whisper"] THEN "faster-whisper"
    ELSE NONE

\* whisperx keeps only the model size at initialization; the others load a model.
LoadsModel(model) == model /= "whisperx"

\* models_to_try
ModelsToTry(model) ==
    IF model = "faster-whisper" THEN <<"faster-whisper", "openai-whisper">>
    ELSE IF model = "openai-whisper" THEN <<"openai-whisper", "faster-whisper">>
    ELSE <<model>>

\* _generate_alternatives(word, confidence)[:alternatives_count]
GenerateAlternatives(text, confidence) ==
    LET alts == CommonAlternatives(text)
        all == [i \in 1 .. Len(alts) |-> [text |-> alts[i], confidence |-> (confidence * 8) \div 10]]
    IN  SubSeq(all, 1, Min(Len(all), AlternativesCount))

\* The words of one engine run: kept when confidence >= confidence_threshold, then
\* given their alternatives.
RECURSIVE KeptWords(_, _)
KeptWords(raw, threshold) ==
    IF raw = <<>> THEN <<>>
    ELSE (IF Head(raw).confidence >= threshold
          THEN <<[text |-> Head(raw).text, confidence |-> Head(raw).confidence,
                  alternatives |-> GenerateAlternatives(Head(raw).text, Head(raw).confidence)]>>
          ELSE <<>>)
         \o KeptWords(Tail(raw), threshold)

NoResult == [kind |-> NONE, words |-> <<>>]

InitTranscriber ==
    /\ trAvail \in [Backends -> BOOLEAN]
    /\ trRequested \in Backends
    /\ trLoadOk \in BOOLEAN
    /\ trThreshold \in TrThresholds
    /\ trModel = trRequested
    /\ trCandidates = <<>>
    /\ trIndex = 0
    /\ trAttempts = <<>>
    /\ trTemp = 0
    /\ trTempFiles = {}
    /\ trTempCount = 0
    /\ trResult = NoResult
    /\ trPc = "new"
    /\ AssocIdle /\ ChordIdle /\ MergeIdle /\ MelodyIdle /\ SepIdle /\ ExportIdle
    /\ RunIdle /\ BatchIdle /\ NormIdle /\ GeminiIdle

trOthers == <<assocVars, chordVars, mergeVars, melodyVars, sepVars, exportVars, runVars,
              batchVars, normVars, geminiVars>>

\* Transcriber.__init__ / _initialize_model
InitializeModel ==
    /\ trPc = "new"
    /\ LET chosen == InitializedModel(trRequested, trAvail)
       IN  IF chosen = NONE \/ (LoadsModel(chosen) /\ ~trLoadOk)
           THEN /\ trPc' = "failed"
                /\ trModel' = IF chosen = NONE THEN trModel ELSE chosen
           ELSE /\ trPc' = "idle"
                /\ trModel' = chosen
    /\ UNCHANGED <<trAvail, trRequested, trLoadOk, trThreshold, trCandidates, trIndex,
                   trAttempts, trTemp, trTempFiles, trTempCount, trResult, trOthers>>

\* transcribe(audio, sample_rate), up to the loop over models_to_try
TranscribeCall ==
    /\ trPc \in {"idle", "done"}
    /\ trTempCount + Len(ModelsToTry(trModel)) <= MaxTempFiles
    /\ trCandidates' = ModelsToTry(trModel)
    /\ trIndex' = 1
    /\ trAttempts' = <<>>
    /\ trResult' = NoResult
    /\ trPc' = "trying"
    /\ UNCHANGED <<trAvail, trRequested, trLoadOk, trModel, trThreshold, trTemp,
                   trTempFiles, trTempCount, trOthers>>

\* A variant of the except branch that ends the call at the first failure.
AttemptRaisedGiveUp ==
    /\ trAttempts' = Append(trAttempts, [name |-> trCandidates[trIndex], outcome |-> "raised"])
    /\ trTemp' = 0
    /\ trResult' = [kind |-> "error", words |-> <<>>]
    /\ trPc' = "done"
    /\ UNCHANGED trIndex

\* except Exception in the loop: the last candidate's failure ends the call with
\* ValueError("All transcription models failed"), any other moves on to the next.
AttemptRaised ==
    /\ trAttempts' = Append(trAttempts, [name |-> trCandidates[trIndex], outcome |-> "raised"])
    /\ trTemp' = 0
    /\ IF trIndex = Len(trCandidates)
       THEN /\ trResult' = [kind |-> "error", words |-> <<>>]
            /\ trPc' = "done"
            /\ UNCHANGED trIndex
       ELSE /\ trIndex' = trIndex + 1
            /\ trPc' = "trying"
            /\ UNCHANGED trResult

\* _save_audio_temp at the head of a backend's method: the temp file is created, then
\* sf.write fills it or raises.
TrSaveAudioTemp ==
    /\ trPc = "trying"
    /\ trTempCount' = trTempCount + 1
    /\ trTempFiles' = trTempFiles \cup {trTempCount + 1}
    /\ \/ /\ trTemp' = trTempCount + 1
          /\ trPc' = "saved"
          /\ UNCHANGED <<trAttempts, trIndex, trResult>>
       \/ AttemptRaised
    /\ UNCHANGED <<trAvail, trRequested, trLoadOk, trModel, trThreshold, trCandidates,
                   trOthers>>

\* The engine call inside try/finally: the temp file is unlinked whether the engine
\* returns its words or raises.
TrEngine ==
    /\ trPc = "saved"
    /\ trTempFiles' = trTempFiles \ {trTemp}
    /\ \/ /\ \E k \in 0 .. MaxEngineWords : \E raw \in [1 .. k -> EngineWords] :
                trResult' = [kind |-> "words", words |-> KeptWords(raw, trThreshold)]
          /\ trAttempts' = Append(trAttempts,
                                  [name |-> trCandidates[trIndex], outcome |-> "returned"])
          /\ trTemp' = 0
          /\ trPc' = "done"
          /\ UNCHANGED trIndex
       \/ AttemptRaised
    /\ UNCHANGED <<trAvail, trRequested, trLoadOk, trModel, trThreshold, trCandidates,
                   trTempCount, trOthers>>

NextTranscriber ==
    \/ InitializeModel
    \/ TranscribeCall
    \/ TrSaveAudioTemp
    \/ TrEngine

SpecTranscriber == InitTranscriber /\ [][NextTranscriber]_vars

\* C11: no temp file of an engine handoff is left once the attempts of a call are over,
\* whether writing the audio failed, the engine raised or the engine returned.
C11_NoLeftoverTempFiles ==
    trPc \in {"idle", "done"} => trTempFiles = {}

\* C12: the backends are tried in the order of the candidate list, each attempt but
\* the last has raised, nothing is tried after a backend returned, and the call ends in
\* an error without words exactly when every candidate has raised.
C12_FallbackChain ==
    trPc \in {"trying", "saved", "done"} =>
        /\ Len(trAttempts) <= Len(trCandidates)
        /\ \A i \in 1 .. Len(trAttempts) : trAttempts[i].name = trCandidates[i]
        /\ \A i \in 1 .. Len(trAttempts) - 1 : trAttempts[i].outcome = "raised"
        /\ trPc /= "done" =>
              /\ trIndex = Len(trAttempts) + 1
              /\ \A i \in 1 .. Len(trAttempts) : trAttempts[i].outcome = "raised"
        /\ trPc = "done" =>
              /\ trResult.kind \in {"words", "error"}
              /\ trResult.kind = "words" =>
                    trAttempts[Len(trAttempts)].outcome = "returned"
              /\ trResult.kind = "error" =>
                    /\ Len(trAttempts) = Len(trCandidates)
                    /\ trAttempts[Len(trAttempts)].outcome = "raised"
                    /\ trResult.words = <<>>

\* The requested backend raised, the next candidate was tried and returned the words.
C12_Witness ==
    /\ trPc = "done" /\ trResult.kind = "words"
    /\ Len(trAttempts) = 2 /\ trAttempts[1].outcome = "raised"

\* C13: for each supported backend the candidate list of a call starts with that
\* backend and goes on with alternates, all different supported backends.
C13_CandidateList ==
    trPc \in {"trying", "saved", "done"} =>
        /\ trCandidates[1] = trModel
        /\ Len(trCandidates) >= 2
        /\ \A i \in 1 .. Len(trCandidates) : trCandidates[i] \in Backends
        /\ \A i, j \in 1 .. Len(trCandidates) : i /= j => trCandidates[i] /= trCandidates[j]

\* C14: when the requested backend is not available and some other backend is, and
\* models load, initialization ends with self.model naming an available backend.
C14_InitSubstitutes ==
    (trPc \notin {"new", "off"} /\ trLoadOk /\ ~trAvail[trRequested]
        /\ \E b \in Backends : trAvail[b]) =>
        /\ trPc /= "failed"
        /\ trAvail[trModel]

\* C15: every alternative attached to a returned word has a confidence strictly below
\* the word's own.
C15_AlternativesLower ==
    (trPc = "done" /\ trResult.kind = "words") =>
        \A i \in 1 .. Len(trResult.words) :
            \A j \in 1 .. Len(trResult.words[i].alternatives) :
                trResult.words[i].alternatives[j].confidence < trResult.words[i].confidence

\* C21: a transcription is only ever run by a Transcriber whose confidence threshold is
\* within [0, 1]: a threshold outside it is rejected by the constructor.
C21_InvalidConfigRejected ==
    trPc \in {"trying", "saved", "done", "failed"} => (0 <= trThreshold /\ trThreshold <= ConfOne)

(***************************************************************************)
(* The single-file pipeline run: ProcessingThread.run (GUI) and            *)
(* process_audio_file (command line)                                       *)
(***************************************************************************)

\* self.timeout_seconds = 1800
TimeoutSeconds == 1800

\* How long a step of the run can take, in seconds.
StageDurations == {0, 900, 1000}

\* A variant of the check that lets the run go on at the ceiling and for a while after.
TimedOutLate(elapsed) == elapsed > 2 * TimeoutSeconds

\* if elapsed_so_far > self.timeout_seconds
TimedOut(elapsed) == elapsed > TimeoutSeconds

\* audio_data before audio_processor.process has returned.
NoAudioData == [audio |-> "none", vocals |-> "none", accompaniment |-> "none"]

\* What AudioProcessor.process returns: 'audio' is the denoised and normalised mix;
\* 'vocals' and 'accompaniment' are the stems of separate_sources, which are the mix
\* itself when separation is off or failed.
ProcessedAudio(separated) ==
    [audio         |-> "mix",
     vocals        |-> IF separated THEN "vocals_stem" ELSE "mix",
     accompaniment |-> IF separated THEN "accompaniment_stem" ELSE "mix"]

\* The buffer ProcessingThread.run hands to a stage: the file to the load, and
\* audio_data['audio'] to transcription, chord detection and melody extraction.
StageInput(stage, audioData) == IF stage = "load" THEN "file" ELSE audioData.audio

InitRun ==
    /\ runRunner \in {"gui", "cli"}
    /\ runPc = "construct"
    /\ runElapsed = 0
    /\ runStarted = <<>>
    /\ runChecks = <<>>
    /\ runOutcome = "none"
    /\ runAudioData = NoAudioData
    /\ runInputs = <<>>
    /\ runCompleted = <<>>
    /\ runSignals = <<>>
    /\ AssocIdle /\ ChordIdle /\ MergeIdle /\ MelodyIdle /\ SepIdle /\ ExportIdle
    /\ TrIdle /\ BatchIdle /\ NormIdle /\ GeminiIdle

runOthers == <<assocVars, chordVars, mergeVars, melodyVars, sepVars, exportVars, trVars,
               batchVars, normVars, geminiVars>>

\* except Exception as e: self.error_occurred.emit(str(e)), for an exception of a stage
RunFails ==
    /\ runOutcome' = "error"
    /\ runSignals' = Append(runSignals, "error_occurred")
    /\ runPc' = "ended"

\* One stage of the GUI run: it takes some time and returns or raises.
RunStage(stage, at, next) ==
    /\ runRunner = "gui"
    /\ runPc = at
    /\ runStarted' = Append(runStarted, stage)
    /\ runInputs' = Append(runInputs, StageInput(stage, runAudioData))
    /\ \E d \in StageDurations : runElapsed' = runElapsed + d
    /\ \/ /\ runPc' = next
          /\ runCompleted' = Append(runCompleted, stage)
          /\ UNCHANGED <<runOutcome, runSignals>>
          /\ IF stage = "load"
             THEN \E separated \in BOOLEAN : runAudioData' = ProcessedAudio(separated)
             ELSE UNCHANGED runAudioData
       \/ /\ RunFails
          /\ UNCHANGED <<runAudioData, runCompleted>>
    /\ UNCHANGED <<runRunner, runChecks, runOthers>>

\* One elapsed-time check of the GUI run: TimeoutError, caught at the end of run, or on
\* to the stage.
RunCheckpoint(at, next) ==
    /\ runRunner = "gui"
    /\ runPc = at
    /\ runChecks' = Append(runChecks, [at |-> at, elapsed |-> runElapsed])
    /\ IF TimedOut(runElapsed)
       THEN /\ runOutcome' = "timeout"
            /\ runSignals' = Append(runSignals, "error_occurred")
            /\ runPc' = "ended"
       ELSE /\ runPc' = next
            /\ UNCHANGED <<runOutcome, runSignals>>
    /\ UNCHANGED <<runRunner, runElapsed, runStarted, runAudioData, runInputs, runCompleted,
                   runOthers>>

\* The processors are constructed (loading a model takes time and can raise).
RunConstruct ==
    /\ runRunner = "gui"
    /\ runPc = "construct"
    /\ \E d \in StageDurations : runElapsed' = runElapsed + d
    /\ \/ /\ runPc' = "load"
          /\ UNCHANGED <<runOutcome, runSignals>>
       \/ RunFails
    /\ UNCHANGED <<runRunner, runStarted, runChecks, runAudioData, runInputs, runCompleted,
                   runOthers>>

\* audio_data = audio_processor.process(self.audio_file)
RunLoad == RunStage("load", "load", "before_transcription")

\* Check for timeout before starting transcription
CheckBeforeTranscription == RunCheckpoint("before_transcription", "transcription")

\* words = transcriber.transcribe(...)
RunTranscribe == RunStage("transcription", "transcription", "before_chords")

\* Check for timeout before chord detection
CheckBeforeChords == RunCheckpoint("before_chords", "chords")

\* chords = chord_detector.detect(...)
RunDetectChords == RunStage("chords", "chords", "before_melody")

\* Check for timeout before melody extraction
CheckBeforeMelody == RunCheckpoint("before_melody", "melody")

\* notes = melody_extractor.extract(...)
RunExtractMelody == RunStage("melody", "melody", "finalize")

\* A variant of the end of the run in which a failure after the association is
\* reported and the document is emitted all the same.
RunFinalizeBothSignals ==
    /\ runRunner = "gui"
    /\ runPc = "finalize"
    /\ runCompleted' = Append(runCompleted, "association")
    /\ runOutcome' = "document"
    /\ runSignals' = <<"error_occurred", "processing_finished">>
    /\ runPc' = "ended"
    /\ UNCHANGED <<runRunner, runElapsed, runStarted, runChecks, runAudioData, runInputs,
                   runOthers>>

\* The end of the run: the results are converted to objects, the chords are associated
\* with the words, the document is put together and processing_finished is emitted with
\* it; an exception before or after the association ends the run with error_occurred.
RunFinalize ==
    /\ runRunner = "gui"
    /\ runPc = "finalize"
    /\ \/ /\ RunFails
          /\ UNCHANGED runCompleted
       \/ /\ runCompleted' = Append(runCompleted, "association")
          /\ RunFails
       \/ /\ runCompleted' = Append(runCompleted, "association")
          /\ runOutcome' = "document"
          /\ runSignals' = Append(runSignals, "processing_finished")
          /\ runPc' = "ended"
    /\ UNCHANGED <<runRunner, runElapsed, runStarted, runChecks, runAudioData, runInputs,
                   runOthers>>

\* process_audio_file: AudioProcessor(input_path=..., output_dir=..., ...) names
\* parameters AudioProcessor.__init__ does not have; the TypeError is caught by the
\* function's except and it returns False before any stage.
CliConstruct ==
    /\ runRunner = "cli"
    /\ runPc = "construct"
    /\ \E d \in StageDurations : runElapsed' = runElapsed + d
    /\ runOutcome' = "error"
    /\ runPc' = "ended"
    /\ UNCHANGED <<runRunner, runStarted, runChecks, runAudioData, runInputs, runCompleted,
                   runSignals, runOthers>>

NextRun ==
    \/ RunConstruct
    \/ RunLoad
    \/ CheckBeforeTranscription
    \/ RunTranscribe
    \/ CheckBeforeChords
    \/ RunDetectChords
    \/ CheckBeforeMelody
    \/ RunExtractMelody
    \/ RunFinalize
    \/ CliConstruct

SpecRun == InitRun /\ [][NextRun]_vars

\* The checkpoint that guards a stage.
CheckpointOf(stage) ==
    IF stage = "transcription" THEN "before_transcription"
    ELSE IF stage = "chords" THEN "before_chords"
    ELSE "before_melody"

\* The elapsed time was checked at the checkpoint and was within the ceiling.
PassedCheck(at) ==
    \E i \in 1 .. Len(runChecks) :
        runChecks[i].at = at /\ runChecks[i].elapsed <= TimeoutSeconds

\* C18: a stage after the load is started only behind a check of the elapsed time that
\* found it within the ceiling; a check that finds it above the ceiling is the last
\* thing of the run, which ends with the timeout error and without a document; and a
\* document comes only out of a run that passed all three checks.
C18_CooperativeTimeout ==
    /\ \A i \in 1 .. Len(runStarted) :
          runStarted[i] /= "load" => PassedCheck(CheckpointOf(runStarted[i]))
    /\ \A i \in 1 .. Len(runChecks) :
          runChecks[i].elapsed > TimeoutSeconds =>
              /\ i = Len(runChecks)
              /\ runPc = "ended"
              /\ runOutcome = "timeout"
              /\ \A j \in 1 .. Len(runStarted) :
                    runStarted[j] /= "load" => CheckpointOf(runStarted[j]) /= runChecks[i].at
    /\ runOutcome = "timeout" =>
          /\ runChecks /= <<>>
          /\ runChecks[Len(runChecks)].elapsed > TimeoutSeconds
    /\ runOutcome = "document" =>
          /\ PassedCheck("before_transcription")
          /\ PassedCheck("before_chords")
          /\ PassedCheck("before_melody")

\* The run timed out at the check before chord detection: transcription has run, chord
\* detection and melody extraction have not.
C18_Witness ==
    /\ runOutcome = "timeout"
    /\ runStarted = <<"load", "transcription">>
    /\ runChecks[Len(runChecks)].at = "before_chords"

\* C22: the transcription stage and the melody-extraction stage are given the vocals
\* buffer of the processed audio (the separated vocal stem whenever separation
\* succeeded).
C22_StagesGetVocalStem ==
    \A i \in 1 .. Len(runStarted) :
        runStarted[i] \in {"transcription", "melody"} => runInputs[i] = runAudioData.vocals

\* The stages of ProcessingThread.run in the order the claim gives them.
StageOrder == <<"load", "transcription", "chords", "melody", "association">>

\* xs is the beginning of ys.
IsPrefix(xs, ys) == Len(xs) <= Len(ys) /\ \A i \in 1 .. Len(xs) : xs[i] = ys[i]

\* C26: a ProcessingThread run emits nothing terminal while it runs and exactly one
\* terminal signal when it has ended; the stages start and complete in the order load,
\* transcription, chords, melody, association, a stage starts only when every stage
\* before it has completed, nothing starts after a stage that failed, and
\* processing_finished is emitted only when all five have completed.
C26_OneTerminalSignal ==
    runRunner = "gui" =>
        /\ Len(runSignals) = (IF runPc = "ended" THEN 1 ELSE 0)
        /\ IsPrefix(runCompleted, StageOrder)
        /\ IsPrefix(runStarted, StageOrder)
        /\ Len(runStarted) <= Len(runCompleted) + 1
        /\ (Len(runStarted) = Len(runCompleted) + 1 /\ Len(runCompleted) < 4) =>
              runSignals = <<"error_occurred">>
        /\ (\E i \in 1 .. Len(runSignals) : runSignals[i] = "processing_finished") =>
              runCompleted = StageOrder

\* A run that went through all five stages and emitted processing_finished.
C26_Witness ==
    /\ runRunner = "gui"
    /\ runSignals = <<"processing_finished">>
    /\ runCompleted = StageOrder

(***************************************************************************)
(* Batch processing: BatchProcessor.process_single_file and process_batch  *)
(***************************************************************************)

\* The largest number of audio files of a batch.
MaxBatchFiles == 3

\* force_overwrite among the keyword arguments of the BatchProcessor: not passed, passed
\* as False (main without --force-overwrite), passed as True.
ForceSettings == {"absent", "false", "true"}

\* self.kwargs.get('force_overwrite', False)
ForceOverwrite(force) == force = "true"

\* A variant of the skip test that does not look for the artifact.
ShouldSkipWithoutLooking(force, exists) == ~ForceOverwrite(force)

\* if not force_overwrite: ... if song_data_file.exists(): skip
ShouldSkip(force, exists) == ~ForceOverwrite(force) /\ exists

\* process_audio_file(input_path=..., output_dir=..., no_gui=True, **self.kwargs): with
\* force_overwrite among the keywords the call raises TypeError (process_audio_file has
\* no such parameter); otherwise the function runs and returns True or False (it catches
\* its own exceptions).
PipelineOutcomes(force) == IF force = "absent" THEN {"true", "false"} ELSE {"raise"}

\* The result dict process_single_file returns.
SingleFileResult(file, skip, outcome) ==
    [file_path |-> file,
     success   |-> skip \/ outcome = "true",
     skipped   |-> skip,
     error     |-> ~skip /\ outcome = "raise"]

\* song_data_file.exists() for the file's artifact.
ArtifactExists(file) == artifacts[batchStems[file]] /= "absent"

\* process_single_file up to the pipeline: the test for the artifact, and the call of
\* the pipeline when the file is not skipped.
SkipCheck(file) ==
    /\ sawArtifact' = [sawArtifact EXCEPT ![file] = IF ArtifactExists(file) THEN "yes" ELSE "no"]
    /\ pipelineCalls' = IF ShouldSkip(batchForce, ArtifactExists(file))
                        THEN pipelineCalls
                        ELSE Append(pipelineCalls, file)

\* The end of the pipeline for a file: json_exporter.export writes
\* <stem>.song_data.json when the pipeline got that far.
PipelineEnd(file, outcome) ==
    IF outcome = "true"
    THEN /\ artifacts' = [artifacts EXCEPT ![batchStems[file]] = "new"]
         /\ artifactWrites' = Append(artifactWrites, [stem |-> batchStems[file], file |-> file])
    ELSE UNCHANGED <<artifacts, artifactWrites>>

\* process_single_file(file_path) in one piece, with the pipeline ending in outcome.
ProcessSingleFile(file, outcome) ==
    /\ SkipCheck(file)
    /\ IF ShouldSkip(batchForce, ArtifactExists(file))
       THEN UNCHANGED <<artifacts, artifactWrites>>
       ELSE PipelineEnd(file, outcome)

\* A variant of the bookkeeping that forgets the files that failed.
FailedAfterForgetting(failed, result) == failed

\* if result['success']: ... else: self.failed_files.append(file_path)
FailedAfter(failed, result) ==
    IF result.success THEN failed ELSE Append(failed, result.file_path)

\* if result['success']: self.successful_files.append(file_path)
SuccessfulAfter(successful, result) ==
    IF result.success THEN Append(successful, result.file_path) ELSE successful

\* The summary process_batch returns.
Summary(files, successful, failed, results) ==
    [success    |-> files /= <<>> /\ failed = <<>>,
     total_files |-> Len(files),
     successful |-> Len(successful),
     failed     |-> Len(failed),
     results    |-> results]

\* The ways the names of n files share a stem (song.wav and song.mp3 do): each file has
\* its own stem or that of the first file.
StemAssignments(n) ==
    {st \in [1 .. n -> 1 .. n] : \A f \in 1 .. n : st[f] \in {1, f}}

InitBatch ==
    /\ batchPc = "new"
    /\ batchParallel \in BOOLEAN
    /\ batchForce \in ForceSettings
    /\ \E n \in 0 .. MaxBatchFiles :
          /\ batchFiles = [i \in 1 .. n |-> i]
          /\ batchStems \in StemAssignments(n)
          /\ existedBefore \in SUBSET {batchStems[f] : f \in 1 .. n}
          /\ artifacts = [st \in 1 .. n |-> IF st \in existedBefore THEN "old" ELSE "absent"]
          /\ sawArtifact = [f \in 1 .. n |-> "unchecked"]
    /\ artifactWrites = <<>>
    /\ batchRunning = {}
    /\ pipelineCalls = <<>>
    /\ batchIndex = 0
    /\ batchPending = {}
    /\ batchDone = {}
    /\ batchResults = <<>>
    /\ successfulFiles = <<>>
    /\ failedFiles = <<>>
    /\ batchSummary = <<>>
    /\ AssocIdle /\ ChordIdle /\ MergeIdle /\ MelodyIdle /\ SepIdle /\ ExportIdle
    /\ TrIdle /\ RunIdle /\ NormIdle /\ GeminiIdle

batchOthers == <<assocVars, chordVars, mergeVars, melodyVars, sepVars, exportVars, trVars,
                 runVars, normVars, geminiVars>>

\* What no step of process_batch changes.
batchInputs == <<batchParallel, batchForce, batchFiles, batchStems, existedBefore>>

\* process_batch up to the loop: no files, the sequential loop, or all tasks submitted.
BatchStart ==
    /\ batchPc = "new"
    /\ IF batchFiles = <<>>
       THEN /\ batchSummary' = <<Summary(<<>>, <<>>, <<>>, <<>>)>>
            /\ batchPc' = "done"
            /\ UNCHANGED <<batchIndex, batchPending>>
       ELSE IF ~batchParallel
       THEN /\ batchPc' = "sequential"
            /\ batchIndex' = 1
            /\ UNCHANGED <<batchSummary, batchPending>>
       ELSE /\ batchPc' = "parallel"
            /\ batchPending' = {batchFiles[i] : i \in 1 .. Len(batchFiles)}
            /\ UNCHANGED <<batchSummary, batchIndex>>
    /\ UNCHANGED <<batchInputs, artifacts, sawArtifact, artifactWrites, batchRunning,
                   pipelineCalls, batchDone, batchResults, successfulFiles, failedFiles,
                   batchOthers>>

\* One iteration of the sequential loop.
BatchSequentialStep ==
    /\ batchPc = "sequential"
    /\ batchIndex <= Len(batchFiles)
    /\ \E outcome \in PipelineOutcomes(batchForce) :
          LET file == batchFiles[batchIndex]
              result == SingleFileResult(
                            file, ShouldSkip(batchForce, ArtifactExists(file)), outcome)
          IN  /\ ProcessSingleFile(file, outcome)
              /\ batchResults' = Append(batchResults, result)
              /\ successfulFiles' = SuccessfulAfter(successfulFiles, result)
              /\ failedFiles' = FailedAfter(failedFiles, result)
    /\ batchIndex' = batchIndex + 1
    /\ UNCHANGED <<batchPc, batchInputs, batchRunning, batchPending, batchDone, batchSummary,
                   batchOthers>>

\* A worker thread starts process_single_file for one of the submitted files: it looks
\* for the artifact and either returns the skipped result or enters the pipeline.
BatchWorkerRun ==
    /\ batchPc = "parallel"
    /\ \E file \in batchPending :
          /\ SkipCheck(file)
          /\ batchPending' = batchPending \ {file}
          /\ IF ShouldSkip(batchForce, ArtifactExists(file))
             THEN /\ batchDone' = batchDone \cup {SingleFileResult(file, TRUE, "true")}
                  /\ UNCHANGED batchRunning
             ELSE /\ batchRunning' = batchRunning \cup {file}
                  /\ UNCHANGED batchDone
    /\ UNCHANGED <<batchPc, batchInputs, artifacts, artifactWrites, batchIndex, batchResults,
                   successfulFiles, failedFiles, batchSummary, batchOthers>>

\* The pipeline of a worker thread ends, and process_single_file returns its result.
BatchWorkerFinish ==
    /\ batchPc = "parallel"
    /\ \E file \in batchRunning :
          \E outcome \in PipelineOutcomes(batchForce) :
              /\ PipelineEnd(file, outcome)
              /\ batchDone' = batchDone \cup {SingleFileResult(file, FALSE, outcome)}
              /\ batchRunning' = batchRunning \ {file}
    /\ UNCHANGED <<batchPc, batchInputs, sawArtifact, pipelineCalls, batchIndex, batchPending,
                   batchResults, successfulFiles, failedFiles, batchSummary, batchOthers>>

\* One iteration of the as_completed loop: the result of a finished task is recorded.
BatchCollect ==
    /\ batchPc = "parallel"
    /\ \E result \in batchDone :
          /\ batchResults' = Append(batchResults, result)
          /\ successfulFiles' = SuccessfulAfter(successfulFiles, result)
          /\ failedFiles' = FailedAfter(failedFiles, result)
          /\ batchDone' = batchDone \ {result}
    /\ UNCHANGED <<batchPc, batchInputs, artifacts, sawArtifact, artifactWrites, batchRunning,
                   pipelineCalls, batchIndex, batchPending, batchSummary, batchOthers>>

\* After the loop: the summary is put together and returned.
BatchSummarise ==
    /\ \/ batchPc = "sequential" /\ batchIndex > Len(batchFiles)
       \/ batchPc = "parallel" /\ batchPending = {} /\ batchRunning = {} /\ batchDone = {}
    /\ batchSummary' = <<Summary(batchFiles, successfulFiles, failedFiles, batchResults)>>
    /\ batchPc' = "done"
    /\ UNCHANGED <<batchInputs, artifacts, sawArtifact, artifactWrites, batchRunning,
                   pipelineCalls, batchIndex, batchPending, batchDone, batchResults,
                   successfulFiles, failedFiles, batchOthers>>

NextBatch ==
    \/ BatchStart
    \/ BatchSequentialStep
    \/ BatchWorkerRun
    \/ BatchWorkerFinish
    \/ BatchCollect
    \/ BatchSummarise

SpecBatch == InitBatch /\ [][NextBatch]_vars

\* The results process_single_file has returned so far.
ReturnedResults == {batchResults[i] : i \in 1 .. Len(batchResults)} \cup batchDone

\* The pipeline was called with the file.
PipelineCalledWith(file) == \E i \in 1 .. Len(pipelineCalls) : pipelineCalls[i] = file

\* The call for the file wrote an artifact.
WroteArtifact(file) == \E i \in 1 .. Len(artifactWrites) : artifactWrites[i].file = file

\* C19: with the skip policy on, a file whose artifact was there when the call looked is
\* returned as successful and skipped, the pipeline is not called with it and the call
\* writes nothing; a file whose artifact was not there is not skipped and the pipeline is
\* called with it. The artifact was there if it existed before the batch.
C19_SkipIfExists ==
    ~ForceOverwrite(batchForce) =>
        \A r \in ReturnedResults :
            /\ batchStems[r.file_path] \in existedBefore => sawArtifact[r.file_path] = "yes"
            /\ sawArtifact[r.file_path] = "yes" =>
                  /\ ~PipelineCalledWith(r.file_path)
                  /\ ~WroteArtifact(r.file_path)
                  /\ batchStems[r.file_path] \in existedBefore =>
                        artifacts[batchStems[r.file_path]] = "old"
                  /\ r.success
                  /\ r.skipped
            /\ sawArtifact[r.file_path] /= "yes" =>
                  /\ sawArtifact[r.file_path] = "no"
                  /\ PipelineCalledWith(r.file_path)
                  /\ ~r.skipped

\* With the skip policy on, one file was skipped and another was handed to the pipeline.
C19_Witness ==
    /\ ~ForceOverwrite(batchForce)
    /\ \E r \in ReturnedResults : r.skipped /\ batchStems[r.file_path] \in existedBefore
    /\ \E r \in ReturnedResults : ~r.skipped /\ PipelineCalledWith(r.file_path)

\* How often x occurs in the list.
Occurrences(xs, x) == Cardinality({i \in 1 .. Len(xs) : xs[i] = x})

\* C20: when process_batch has returned, every file has exactly one result record, was
\* either skipped or handed to the pipeline, is in exactly one of successful_files and
\* failed_files (the one its record says), and the summary's successful and failed add
\* up to total_files, the number of input files.
C20_BatchContinues ==
    batchPc = "done" =>
        LET sm == batchSummary[1] IN
        /\ sm.total_files = Len(batchFiles)
        /\ sm.successful + sm.failed = sm.total_files
        /\ Len(sm.results) = Len(batchFiles)
        /\ \A i \in 1 .. Len(batchFiles) :
              LET file == batchFiles[i] IN
              /\ Cardinality({j \in 1 .. Len(sm.results) : sm.results[j].file_path = file}) = 1
              /\ Occurrences(successfulFiles, file) + Occurrences(failedFiles, file) = 1
              /\ \A j \in 1 .. Len(sm.results) :
                    sm.results[j].file_path = file =>
                        /\ sm.results[j].success <=> Occurrences(successfulFiles, file) = 1
                        /\ sm.results[j].skipped \/ PipelineCalledWith(file)

\* A parallel batch has returned in which the first result taken was a failure, of a file
\* that was not the first submitted, and a later one was a success.
C20_Witness ==
    /\ batchPc = "done"
    /\ batchParallel
    /\ Len(batchResults) >= 2
    /\ ~batchResults[1].success
    /\ batchResults[1].file_path /= batchFiles[1]
    /\ \E j \in 2 .. Len(batchResults) : batchResults[j].success
    /\ batchSummary[1].failed >= 1

MaxNormCalls == 2

\* Sample values are in thousandths of full scale.
\* target_rms = 0.1
TargetRms == 100

\* if max_val > 0.95: normalized = normalized * (0.95 / max_val)
ClipCeiling == 950

\* The input buffers: constant-magnitude signals, named by their magnitude (which is
\* both their RMS and their peak); 0 is silence.
NormAmplitudes == {0, 50, 600, 1000}

\* gain_linear for the loudness the meter measured, as numerator and denominator.
LufsGains == {<<1, 2>>, <<1, 1>>, <<2, 1>>}

\* A buffer of samples; nan says the samples are not numbers.
Samples(amplitude) == [amplitude |-> amplitude, nan |-> FALSE]
NanSamples == [amplitude |-> 0, nan |-> TRUE]

\* audio * (target_rms / (rms + 1e-10)): silence stays silence, anything else comes out
\* at the target.
RmsNormalized(a) == IF a = 0 THEN Samples(0) ELSE Samples(TargetRms)

\* audio * gain_linear, scaled down to the ceiling when it would clip; silence has
\* loudness -inf, the gain is infinite and 0 * inf is nan.
LufsNormalized(a, gain) ==
    IF a = 0 THEN NanSamples
    ELSE IF (a * gain[1]) \div gain[2] > ClipCeiling THEN Samples(ClipCeiling)
    ELSE Samples((a * gain[1]) \div gain[2])

\* The keys normalize_audio has put into processing_info.
NoInfo == {}
TimeRecorded == {"normalize_time"}
AllRecorded == {"normalize_time", "normalize_memory_mb"}

\* One call on a new AudioProcessor: the loudness meter is not installed (RMS path), or
\* it is and the call goes through (LUFS path), or something raises before the time is
\* recorded or in the memory logging after it (the input is returned as it came).
NormalizeOutcomes(a) ==
    {[input |-> Samples(a), path |-> "rms", returned |-> RmsNormalized(a), info |-> NoInfo]}
    \cup {[input |-> Samples(a), path |-> "lufs", returned |-> LufsNormalized(a, g),
           info |-> AllRecorded] : g \in LufsGains}
    \cup {[input |-> Samples(a), path |-> "failure", returned |-> Samples(a), info |-> i] :
             i \in {NoInfo, TimeRecorded}}

InitNormalize ==
    /\ normCalls = <<>>
    /\ AssocIdle /\ ChordIdle /\ MergeIdle /\ MelodyIdle /\ SepIdle /\ ExportIdle
    /\ TrIdle /\ RunIdle /\ BatchIdle /\ GeminiIdle

\* normalize_audio(audio, sr)
NormalizeAudio ==
    /\ Len(normCalls) < MaxNormCalls
    /\ \E a \in NormAmplitudes :
          \E call \in NormalizeOutcomes(a) : normCalls' = Append(normCalls, call)
    /\ UNCHANGED <<assocVars, chordVars, mergeVars, melodyVars, sepVars, exportVars, trVars,
                   runVars, batchVars, geminiVars>>

NextNormalize ==
    \/ NormalizeAudio

SpecNormalize == InitNormalize /\ [][NextNormalize]_vars

\* What the caller of normalize_audio has in hand afterwards: the returned samples and
\* the processing info.
Observed(call) == <<call.returned, call.info>>

\* C23: two calls on the same input that took different paths leave the caller with
\* different things in hand.
C23_PathDetectable ==
    \A i, j \in 1 .. Len(normCalls) :
        (normCalls[i].input = normCalls[j].input /\ normCalls[i].path /= normCalls[j].path) =>
            Observed(normCalls[i]) /= Observed(normCalls[j])

(***************************************************************************)
(* Chunked analysis: GeminiClient.analyze_audio_alt_chunked                *)
(***************************************************************************)

\* The longest audio, in samples, and the largest int(sr * chunk_seconds).
MaxSamples == 4
MaxPerChunk == 2

\* backoffs = [60, 300]
Backoffs == <<60, 300>>

\* samples_per_chunk = max(1, int(sr * chunk_seconds))
SamplesPerChunk(product) == Max(1, product)

\* A variant in which every chunk starts with a fresh retry budget.
HitsCarriedReset(hits) == 0

\* unavailable_hits is set to 0 before the outer loop and never inside it.
HitsCarried(hits) == hits

InitGemini ==
    /\ gemPc = "new"
    /\ gemKey \in BOOLEAN
    /\ gemLen \in 0 .. MaxSamples
    /\ \E product \in 0 .. MaxPerChunk : gemPerChunk = SamplesPerChunk(product)
    /\ gemStart = 0
    /\ gemEnd = 0
    /\ gemHits = 0
    /\ gemSkipped = FALSE
    /\ gemStarts = <<>>
    /\ gemHitsAtChunk = 0
    /\ gemPosts = 0
    /\ gemSleeps = <<>>
    /\ AssocIdle /\ ChordIdle /\ MergeIdle /\ MelodyIdle /\ SepIdle /\ ExportIdle
    /\ TrIdle /\ RunIdle /\ BatchIdle /\ NormIdle

geminiOthers == <<assocVars, chordVars, mergeVars, melodyVars, sepVars, exportVars, trVars,
                  runVars, batchVars, normVars>>

\* The call up to the outer loop: without an API key it returns at once.
GemBegin ==
    /\ gemPc = "new"
    /\ gemPc' = IF gemKey THEN "outer" ELSE "done"
    /\ UNCHANGED <<gemKey, gemLen, gemPerChunk, gemStart, gemEnd, gemHits, gemSkipped,
                   gemStarts, gemHitsAtChunk, gemPosts, gemSleeps, geminiOthers>>

\* while start < len(y): the chunk is cut and encoded, or the loop is left and the call
\* returns.
GemOuter ==
    /\ gemPc = "outer"
    /\ IF gemStart < gemLen
       THEN /\ gemEnd' = Min(gemLen, gemStart + gemPerChunk)
            /\ gemSkipped' = FALSE
            /\ gemStarts' = Append(gemStarts, gemStart)
            /\ gemHitsAtChunk' = gemHits
            /\ gemPosts' = 0
            /\ gemPc' = "post"
       ELSE /\ gemPc' = "done"
            /\ UNCHANGED <<gemEnd, gemSkipped, gemStarts, gemHitsAtChunk, gemPosts>>
    /\ UNCHANGED <<gemKey, gemLen, gemPerChunk, gemStart, gemHits, gemSleeps, geminiOthers>>

\* One round of the backoff loop: the chunk is posted; an answer that is not UNAVAILABLE
\* ends the loop, an UNAVAILABLE one is slept on while backoffs are left and makes the
\* chunk skipped when none is.
GemPost ==
    /\ gemPc = "post"
    /\ gemPosts' = gemPosts + 1
    /\ \E unavailable \in BOOLEAN :
          IF ~unavailable
          THEN /\ gemPc' = "advance"
               /\ UNCHANGED <<gemHits, gemSkipped, gemSleeps>>
          ELSE IF gemHits >= Len(Backoffs)
          THEN /\ gemSkipped' = TRUE
               /\ gemPc' = "advance"
               /\ UNCHANGED <<gemHits, gemSleeps>>
          ELSE /\ gemSleeps' = Append(gemSleeps, Backoffs[gemHits + 1])
               /\ gemHits' = gemHits + 1
               /\ UNCHANGED <<gemPc, gemSkipped>>
    /\ UNCHANGED <<gemKey, gemLen, gemPerChunk, gemStart, gemEnd, gemStarts, gemHitsAtChunk,
                   geminiOthers>>

\* The answer is parsed unless the chunk was skipped, and start = end.
GemAdvance ==
    /\ gemPc = "advance"
    /\ gemStart' = gemEnd
    /\ gemHits' = HitsCarried(gemHits)
    /\ gemPc' = "outer"
    /\ UNCHANGED <<gemKey, gemLen, gemPerChunk, gemEnd, gemSkipped, gemStarts,
                   gemHitsAtChunk, gemPosts, gemSleeps, geminiOthers>>

NextGemini ==
    \/ GemBegin
    \/ GemOuter
    \/ GemPost
    \/ GemAdvance

SpecGemini == InitGemini /\ [][NextGemini]_vars

\* The call is one thread that takes its next step as long as it has one.
SpecGeminiLive == SpecGemini /\ WF_vars(NextGemini)

\* The offsets increase, a chunk is posted at most three times, at most two backoff
\* delays are slept in the whole call, and a chunk that began with the budget used up
\* and was skipped had been posted once.
GemBounded ==
    /\ \A i \in 1 .. Len(gemStarts) - 1 : gemStarts[i] < gemStarts[i + 1]
    /\ gemPosts <= 3
    /\ Len(gemSleeps) <= 2
    /\ (gemPc = "advance" /\ gemSkipped /\ gemHitsAtChunk >= 2) => gemPosts = 1

\* C28: the call stays within these bounds at every step and returns in the end,
\* whatever the audio length, the chunk size and the pattern of UNAVAILABLE answers.
C28_ChunkedTerminates == []GemBounded /\ <>(gemPc = "done")

\* Both backoffs were spent on an earlier chunk, and a later chunk that was answered
\* UNAVAILABLE has been skipped after one post.
C28_Witness ==
    /\ gemPc = "advance"
    /\ gemSkipped
    /\ gemHitsAtChunk = 2
    /\ gemPosts = 1
    /\ gemSleeps = Backoffs
    /\ Len(gemStarts) >= 2

====
